---- MODULE Spec2Model ----
(***************************************************************************)
(* PSI report pipeline of backend/ai.py: the score model, the payload      *)
(* normaliser, the fallback estimator, generate_psi_report with the two    *)
(* endpoints of backend/main.py that call it, and the JSON recovery ladder *)
(* of generate_video_analysis.                                             *)
(*                                                                         *)
(* Python values are tagged records:                                       *)
(*   [t |-> "None"]                      None / JSON null                  *)
(*   [t |-> "num", num |-> n, den |-> d] the finite number n/d, d a power  *)
(*                                       of ten, in lowest such terms      *)
(*   [t |-> "inf", neg |-> b]            float +-infinity                  *)
(*   [t |-> "nan"]                       float not-a-number                *)
(*   [t |-> "str", s |-> <<tokens>>]     a str, as a sequence of tokens    *)
(*   [t |-> "list", items |-> <<...>>]   a list                            *)
(*   [t |-> "dict", d |-> [keys -> values]]  a dict                        *)
(* The outcome of a call is [exc |-> "none", val |-> v] when it returns v  *)
(* and [exc |-> "<ExceptionClass>"] when it raises.                        *)
(***************************************************************************)
EXTENDS Integers, Sequences, FiniteSets, TLC

VARIABLES
    MODEL,      \* whether the Gemini client singleton is configured
    pc,         \* position of the current call: "ready", "returned", "raised"
    call,       \* the current call: its name and its arguments
    ret,        \* what the call returned, or the exception it raised
    levels,     \* the steps of the last call, in order: the invocations of the
                \* LLM by generate_psi_report, the recovery levels attempted by
                \* generate_video_analysis
    row,        \* the persisted evaluation row the text endpoints write
    verification_store, \* verification.verification_store: contact -> entry
    heap,       \* the entry objects (dicts) the store and the locals refer to
    now,        \* datetime.utcnow(), in minutes
    threads,    \* the verify_code calls in progress in the thread pool
    audit,      \* history: per entry, the comparisons made and accepted
    files,      \* the temporary files that exist
    remote      \* the state of the uploaded file at the LLM service

\* the state of the verification module, and of the video upload
verification == <<verification_store, heap, now, threads, audit>>
uploads == <<files, remote>>

vars == <<MODEL, pc, call, ret, levels, row, verification, uploads>>

\* no verification code was requested, no video is being uploaded
NoVerification ==
    /\ verification_store = <<>>
    /\ heap = <<>>
    /\ now = 0
    /\ threads = <<>>
    /\ audit = <<>>
NoUploads ==
    /\ files = {}
    /\ remote = "none"

(***************************************************************************)
(* Bounds of the model.                                                    *)
(***************************************************************************)
MaxNoteLen == 2     \* tokens in a coach note or in a JSON string
MaxNumericSkill == 3 \* skill-area notes that vary at once
MaxTextLen == 4     \* tokens in an LLM video response text
MaxItemLen == 5     \* tokens in an item of a list field of a report
MaxListLen == 6     \* items in a list field of a report

(***************************************************************************)
(* Python values and outcomes.                                             *)
(***************************************************************************)
None == [t |-> "None"]
Inf(neg) == [t |-> "inf", neg |-> neg]
NaN == [t |-> "nan"]
Str(s) == [t |-> "str", s |-> s]
List(items) == [t |-> "list", items |-> items]
Dict(d) == [t |-> "dict", d |-> d]

RECURSIVE Num(_, _)
Num(n, d) == IF d > 1 /\ n % 10 = 0 THEN Num(n \div 10, d \div 10)
             ELSE [t |-> "num", num |-> n, den |-> d]
PyInt(n) == Num(n, 1)

\* F applied to the value of v, which is computed once
Bind(v, F(_)) == CHOOSE o \in {F(x) : x \in {v}} : TRUE

Return(v) == [exc |-> "none", val |-> v]
Raise(e) == [exc |-> e]
Raised(o) == o.exc # "none"

\* an outcome with the steps that led to it
Traced(out, steps) == [out |-> out, levels |-> steps]

\* dict.get(key) with the default None
Get(m, key) == IF key \in DOMAIN m THEN m[key] ELSE None
\* dict.get(key, default)
GetOr(m, key, default) == IF key \in DOMAIN m THEN m[key] ELSE default

(***************************************************************************)
(* Tokens of a str.  A digit stands for itself, "." and "-" for            *)
(* themselves, "inf" and "nan" for those words, "e999" for that exponent,  *)
(* and "x" for a letter that belongs to no numeral.                        *)
(***************************************************************************)
DigitTokens == {"0", "1", "2", "3", "4", "5", "6", "7", "8", "9"}
DigitValue(c) ==
    CASE c = "0" -> 0 [] c = "1" -> 1 [] c = "2" -> 2 [] c = "3" -> 3
      [] c = "4" -> 4 [] c = "5" -> 5 [] c = "6" -> 6 [] c = "7" -> 7
      [] c = "8" -> 8 [] c = "9" -> 9

RECURSIVE DigitsToInt(_)
DigitsToInt(s) ==
    IF s = <<>> THEN 0
    ELSE 10 * DigitsToInt(SubSeq(s, 1, Len(s) - 1)) + DigitValue(s[Len(s)])

RECURSIVE Pow10(_)
Pow10(k) == IF k = 0 THEN 1 ELSE 10 * Pow10(k - 1)

\* float of the unsigned numeral body: digits with at most one ".", and
\* optionally the exponent e999
PyFloatBody(body, neg) ==
    LET hasExp == Len(body) > 0 /\ body[Len(body)] = "e999"
    IN  Bind(IF hasExp THEN SubSeq(body, 1, Len(body) - 1) ELSE body,
             LAMBDA mant :
        LET dots == {i \in 1..Len(mant) : mant[i] = "."}
            digs == SelectSeq(mant, LAMBDA c : c \in DigitTokens)
            dot == IF dots = {} THEN Len(mant) + 1 ELSE CHOOSE i \in dots : TRUE
            frac == Len(mant) + 1 - dot - (IF dots = {} THEN 0 ELSE 1)
        IN  IF \/ \E i \in 1..Len(mant) : mant[i] \notin DigitTokens \cup {"."}
               \/ Cardinality(dots) > 1
               \/ Len(digs) = 0
            THEN Raise("ValueError")
            ELSE Bind(DigitsToInt(digs), LAMBDA n :
                 IF hasExp
                 THEN IF n = 0 THEN Return(PyInt(0)) ELSE Return(Inf(neg))
                 ELSE Return(Num(IF neg THEN 0 - n ELSE n, Pow10(frac)))))

\* float(s) for a str s: the value, or ValueError
PyFloatStr(s) ==
    LET neg == Len(s) > 0 /\ s[1] = "-"
        body == IF neg THEN Tail(s) ELSE s
    IN  IF body = <<"inf">> THEN Return(Inf(neg))
        ELSE IF body = <<"nan">> THEN Return(NaN)
        ELSE PyFloatBody(body, neg)

\* float(v) for any value v
PyFloat(v) ==
    CASE v.t = "num" -> Return(v)
      [] v.t = "inf" -> Return(v)
      [] v.t = "nan" -> Return(v)
      [] v.t = "str" -> PyFloatStr(v.s)
      [] OTHER -> Raise("TypeError")

\* the integer nearest to n/d, ties to the even one (round() of Python 3)
RoundHalfEven(n, d) ==
    LET q == n \div d
        r == n % d
    IN  IF 2 * r < d THEN q
        ELSE IF 2 * r > d THEN q + 1
        ELSE IF q % 2 = 0 THEN q ELSE q + 1

\* int(round(f)) for a float f
PyIntRound(f) ==
    CASE f.t = "inf" -> Raise("OverflowError")
      [] f.t = "nan" -> Raise("ValueError")
      [] OTHER -> Return(RoundHalfEven(f.num, f.den))

Max(a, b) == IF a >= b THEN a ELSE b
Min(a, b) == IF a <= b THEN a ELSE b

(***************************************************************************)
(* ScoreModel.                                                             *)
(***************************************************************************)
\* the weights, in hundredths
PSI_WEIGHTS == [skill |-> 45, presence |-> 25, intent |-> 30]
WEIGHT_TOTAL == PSI_WEIGHTS.skill + PSI_WEIGHTS.presence + PSI_WEIGHTS.intent

\* the tenths of a weighted sum whose skill and presence weights are exchanged
WeightedTenthsSwapped(presence, skill, intent) ==
    RoundHalfEven(10 * (skill * PSI_WEIGHTS.presence
                        + presence * PSI_WEIGHTS.skill
                        + intent * PSI_WEIGHTS.intent), WEIGHT_TOTAL)

\* the number of tenths of round(weighted, 1): the weighted sum over
\* WEIGHT_TOTAL, rounded to one decimal, ties to the even tenth
WeightedTenths(presence, skill, intent) ==
    RoundHalfEven(10 * (skill * PSI_WEIGHTS.skill
                        + presence * PSI_WEIGHTS.presence
                        + intent * PSI_WEIGHTS.intent), WEIGHT_TOTAL)

\* PSIReport.weighted_psi, on the three scores of the report
weighted_psi(presence, skill, intent) ==
    Num(WeightedTenths(presence, skill, intent), 10)

(***************************************************************************)
(* Specification of the score model: the three scores are drawn, and       *)
(* weighted_psi is applied to them.                                        *)
(***************************************************************************)
Idle == [t |-> "idle"]

InitScore ==
    /\ NoVerification
    /\ NoUploads
    /\ MODEL = FALSE
    /\ pc = "ready"
    /\ \E p \in 0..10, s \in 0..10, i \in 0..10 :
           call = [name |-> "weighted_psi", presence |-> p, skill |-> s, intent |-> i]
    /\ ret = Idle
    /\ levels = <<>>
    /\ row = Idle

WeightedPsi ==
    /\ pc = "ready"
    /\ call.name = "weighted_psi"
    /\ ret' = Return(weighted_psi(call.presence, call.skill, call.intent))
    /\ pc' = "returned"
    /\ UNCHANGED <<MODEL, verification, uploads, call, levels, row>>

NextScore == WeightedPsi
SpecScore == InitScore /\ [][NextScore]_vars

\* C7: for integer scores in [0,10], weighted_psi is a whole number of tenths
\* in [0.0, 10.0] within 0.05 of (45*skill + 25*presence + 30*intent)/100,
\* and it is 10.0 at (10,10,10), 0.0 at (0,0,0) and 6.8 at presence 8,
\* skill 6, intent 7.
C7_WeightedPsiRange ==
    (pc = "returned" /\ call.name = "weighted_psi") =>
        LET exact100 == 45 * call.skill + 25 * call.presence + 30 * call.intent
            psi == ret.val
            tenths == psi.num * (10 \div psi.den)
        IN  /\ ret.exc = "none"
            /\ psi.t = "num" /\ psi.den \in {1, 10}
            /\ 0 <= tenths /\ tenths <= 100
            /\ 10 * tenths - exact100 <= 5
            /\ exact100 - 10 * tenths <= 5
            /\ (call.presence = 10 /\ call.skill = 10 /\ call.intent = 10) => psi = PyInt(10)
            /\ (call.presence = 0 /\ call.skill = 0 /\ call.intent = 0) => psi = PyInt(0)
            /\ (call.presence = 8 /\ call.skill = 6 /\ call.intent = 7) => psi = Num(68, 10)

C7_Witness ==
    /\ pc = "returned" /\ call.name = "weighted_psi"
    /\ call.presence = 8 /\ call.skill = 6 /\ call.intent = 7
    /\ ret = Return(Num(68, 10))
(***************************************************************************)
(* FallbackEstimator.                                                      *)
(***************************************************************************)
\* str(v): a str is itself; the text of None, of a list and of a dict is no
\* numeral; the text of a number reads back as that number
PyStr(v) ==
    CASE v.t = "str" -> v
      [] v.t \in {"None", "list", "dict"} -> Str(<<"x">>)
      [] OTHER -> v

\* max(0, min(10, int(round(float(str(value)))))) as a Python int, with what
\* it raises
ClampedScoreOf(value) ==
    Bind(PyFloat(PyStr(value)), LAMBDA f :
        IF Raised(f) THEN f
        ELSE Bind(PyIntRound(f.val), LAMBDA r :
            IF Raised(r) THEN r
            ELSE Return(PyInt(Max(0, Min(10, r.val))))))

\* except (TypeError, ValueError): the handler's value replaces these two
Except2(outcome, handled) ==
    Bind(outcome, LAMBDA o :
        IF o.exc \in {"TypeError", "ValueError"} THEN Return(handled) ELSE o)

_coerce_from_notes(evaluation_data, key) ==
    LET value == Get(evaluation_data, key)
    IN  IF value = None THEN Return(PyInt(5))
        ELSE Except2(ClampedScoreOf(value), PyInt(5))

\* a variant that scores an unreadable skill area 0
_score_from_text_zero(text) == Except2(ClampedScoreOf(text), PyInt(0))

\* a variant that rounds a skill area without clamping it
_score_from_text_unclamped(text) ==
    Except2(Bind(PyFloat(PyStr(text)), LAMBDA f :
                IF Raised(f) THEN f
                ELSE Bind(PyIntRound(f.val), LAMBDA r :
                    IF Raised(r) THEN r ELSE Return(PyInt(r.val)))),
            None)

\* a skipped skill area is Return(None)
_score_from_text(text) == Except2(ClampedScoreOf(text), None)

SKILL_CANDIDATES ==
    <<"front_court", "back_court", "attacking_play", "defensive_play",
      "strokeplay", "footwork">>

RECURSIVE SumSeq(_)
SumSeq(s) == IF s = <<>> THEN 0 ELSE Head(s) + SumSeq(Tail(s))

\* a psi that is 5.0 whatever the three scores are
FallbackPsiDefaulted(presence, skill, intent) == Num(50, 10)

\* psi = float(round((Decimal(skill) * PSI_WEIGHTS["skill"] + ...) /
\* WEIGHT_TOTAL, 1)), the estimator's own computation of the weighted sum
FallbackPsi(presence, skill, intent) ==
    Num(RoundHalfEven(10 * (skill * PSI_WEIGHTS["skill"]
                            + presence * PSI_WEIGHTS["presence"]
                            + intent * PSI_WEIGHTS["intent"]),
                      WEIGHT_TOTAL),
        10)

\* the scores, once the three notes and the six skill areas are read
FallbackScoresOf(presence, intent, scored) ==
    LET failing == {k \in 1..Len(scored) : Raised(scored[k])}
        kept == SelectSeq(scored, LAMBDA o : ~Raised(o) /\ o.val # None)
    IN  IF Raised(presence) THEN presence
        ELSE IF Raised(intent) THEN intent
        ELSE IF failing # {} THEN scored[CHOOSE k \in failing : \A j \in failing : k <= j]
        ELSE Bind([k \in 1..Len(kept) |-> kept[k].val.num],
                  LAMBDA numeric_skill_values :
             Bind(IF numeric_skill_values # <<>>
                  THEN RoundHalfEven(SumSeq(numeric_skill_values),
                                     Len(numeric_skill_values))
                  ELSE 5,
                  LAMBDA skill :
             Return([presence |-> presence.val.num, skill |-> skill,
                     intent |-> intent.val.num,
                     psi |-> FallbackPsi(presence.val.num, skill, intent.val.num)])))

_fallback_scores(evaluation_data) ==
    Bind(_coerce_from_notes(evaluation_data, "presence"), LAMBDA presence :
    Bind(_coerce_from_notes(evaluation_data, "intent"), LAMBDA intent :
    Bind([k \in 1..Len(SKILL_CANDIDATES) |->
             _score_from_text(Get(evaluation_data, SKILL_CANDIDATES[k]))],
         LAMBDA scored : FallbackScoresOf(presence, intent, scored))))

FALLBACK_MESSAGE == "AI service unavailable. Provide manual feedback for this session."
FALLBACK_BULLETS ==
    <<Str(<<"AI fallback response">>), Str(<<"Review session manually">>),
      Str(<<"Use coach insights">>), Str(<<"Plan custom drills">>),
      Str(<<"Monitor progress">>)>>

\* the PSIReport of the return statement
FallbackContent(evaluation_data, message, fallback_scores) ==
    [scores |-> fallback_scores,
     player_evaluation |-> message,
     player_strengths |->
        <<GetOr(evaluation_data, "strengths", Str(<<"See coach notes.">>))>>,
     player_weaknesses |-> <<Str(<<"Unable to evaluate automatically.">>)>>,
     actions_strengths |->
        <<Str(<<"Continue reinforcing successful patterns noted by the coach.">>)>>,
     actions_weaknesses |-> <<Str(<<"Schedule a manual review session.">>)>>,
     course_forward |->
        Str(<<"AI insights are temporarily unavailable. Use the coach's notes to plan drills.">>),
     summary_bullets |-> FALLBACK_BULLETS]

\* a variant whose presence score is 0 when a reason is given
_fallback_report_scoring_reason(evaluation_data, reason) ==
    Bind(_fallback_scores(evaluation_data), LAMBDA fallback_scores :
        IF Raised(fallback_scores) THEN fallback_scores
        ELSE Return(FallbackContent(evaluation_data, Str(<<FALLBACK_MESSAGE>>),
                IF reason = None THEN fallback_scores.val
                ELSE [fallback_scores.val EXCEPT !.presence = 0])))

\* reason is None or a str
_fallback_report(evaluation_data, reason) ==
    LET message == IF reason # None /\ reason.s # <<>>
                   THEN Str(<<FALLBACK_MESSAGE, " (Reason: ">> \o reason.s \o <<")">>)
                   ELSE Str(<<FALLBACK_MESSAGE>>)
    IN  Bind(_fallback_scores(evaluation_data), LAMBDA fallback_scores :
        IF Raised(fallback_scores) THEN fallback_scores
        ELSE Return(FallbackContent(evaluation_data, message, fallback_scores.val)))

(***************************************************************************)
(* Coach notes of the model, and the evaluation mappings built from them.  *)
(***************************************************************************)
NoteAlphabet == {"0", "2", "6", "8", ".", "-", "inf", "nan", "e999", "x"}

\* the token sequences of at most n tokens
TokenSeqs(alphabet, n) == UNION {[1..k -> alphabet] : k \in 0..n}

Notes == {Str(s) : s \in TokenSeqs(NoteAlphabet, MaxNoteLen)}
CoreNotes == {Str(<<"6">>), Str(<<"x">>), Str(<<>>), Str(<<"inf">>), Str(<<"nan">>),
              Str(<<"8", ".", "5">>)}
SkillNotes == {Str(<<"0">>), Str(<<"2", "0">>), Str(<<"2", ".", "6">>), Str(<<"8">>)}
NOT_PROVIDED == Str(<<"Not provided">>)

EVALUATION_FIELDS ==
    {"session_id", "date", "front_court", "back_court", "attacking_play",
     "defensive_play", "strokeplay", "footwork", "presence", "intent",
     "improvements", "strengths", "comments"}

\* a mapping with every field, the notes not named being plain text
BaseEvaluation == [f \in EVALUATION_FIELDS |-> Str(<<"x">>)]

\* the mark of a key the mapping does not have
Absent == [t |-> "absent"]

\* m with key set to value, or without key when value is Absent
With(m, key, value) ==
    IF value = Absent
    THEN [f \in DOMAIN m \ {key} |-> m[f]]
    ELSE [f \in DOMAIN m \cup {key} |-> IF f = key THEN value ELSE m[f]]

SkillFields == {SKILL_CANDIDATES[k] : k \in 1..Len(SKILL_CANDIDATES)}

\* the mapping whose presence and intent notes are p and i
PresenceIntentEvaluation(p, i) ==
    With(With(BaseEvaluation, "presence", p), "intent", i)

\* the sets of at most MaxNumericSkill skill areas
SkillAreaSets == {a \in SUBSET SkillFields : Cardinality(a) <= MaxNumericSkill}

\* the mapping whose skill areas of v carry the notes of v, with presence
\* note "8" and intent note "6"
SkillEvaluation(v) ==
    [f \in EVALUATION_FIELDS |->
        IF f \in DOMAIN v THEN v[f]
        ELSE IF f = "presence" THEN Str(<<"8">>)
        ELSE IF f = "intent" THEN Str(<<"6">>)
        ELSE Str(<<"x">>)]

Reasons == {None, Str(<<"x">>)}

\* the strengths note: missing from the mapping, not provided, empty, blank
\* or a text
StrengthsNotes == {Absent, NOT_PROVIDED, Str(<<>>), Str(<<" ">>), Str(<<"x", " ", "x">>)}

(***************************************************************************)
(* Specification of the fallback estimator: an evaluation mapping and a    *)
(* reason are drawn, and _fallback_report is applied to them.              *)
(***************************************************************************)
InitFallback ==
    /\ NoVerification
    /\ NoUploads
    /\ MODEL = FALSE
    /\ pc = "ready"
    /\ \E r \in Reasons :
           \/ \E p \in Notes \cup {Absent}, i \in CoreNotes \cup {Absent} :
                call = [name |-> "_fallback_report", reason |-> r,
                        evaluation_data |-> PresenceIntentEvaluation(p, i)]
           \/ \E p \in CoreNotes \cup {Absent}, i \in Notes :
                call = [name |-> "_fallback_report", reason |-> r,
                        evaluation_data |-> PresenceIntentEvaluation(p, i)]
           \/ \E areas \in SkillAreaSets :
                \E v \in [areas -> SkillNotes \cup {Str(<<"inf">>)}] :
                  call = [name |-> "_fallback_report", reason |-> r,
                          evaluation_data |-> SkillEvaluation(v)]
           \/ \E strengths \in StrengthsNotes :
                call = [name |-> "_fallback_report", reason |-> r,
                        evaluation_data |-> With(BaseEvaluation, "strengths", strengths)]
    /\ ret = Idle
    /\ levels = <<>>
    /\ row = Idle

FallbackReport ==
    /\ pc = "ready"
    /\ call.name = "_fallback_report"
    /\ ret' = _fallback_report(call.evaluation_data, call.reason)
    /\ pc' = IF Raised(ret') THEN "raised" ELSE "returned"
    /\ UNCHANGED <<MODEL, verification, uploads, call, levels, row>>

NextFallback == FallbackReport
SpecFallback == InitFallback /\ [][NextFallback]_vars

\* C3: the fallback estimator never raises; for any mapping of coach notes it
\* returns presence, skill and intent as integers in [0,10].
C3_FallbackNeverRaises ==
    (pc # "ready" /\ call.name = "_fallback_report") =>
        /\ pc = "returned"
        /\ ret.exc = "none"
        /\ \A k \in {"presence", "skill", "intent"} : ret.val.scores[k] \in 0..10

\* C8: presence note "8", intent note "6", no numeric skill note: the
\* fallback report has presence 8, intent 6, skill 5 and psi 6.1.
C8Scenario ==
    /\ call.name = "_fallback_report"
    /\ Get(call.evaluation_data, "presence") = Str(<<"8">>)
    /\ Get(call.evaluation_data, "intent") = Str(<<"6">>)
    /\ \A f \in SkillFields : Get(call.evaluation_data, f) = Str(<<"x">>)

C8_TieRoundsUp ==
    (pc # "ready" /\ C8Scenario) =>
        /\ pc = "returned"
        /\ ret.val.scores = [presence |-> 8, skill |-> 5, intent |-> 6,
                             psi |-> Num(61, 10)]

\* C8 as amended: in that scenario the exact weighted sum 6.05 is a tie and
\* is rounded to the even tenth, so psi is 6.0.
C8_TieRoundsToEven ==
    (pc # "ready" /\ C8Scenario) =>
        /\ pc = "returned"
        /\ ret.val.scores = [presence |-> 8, skill |-> 5, intent |-> 6,
                             psi |-> PyInt(6)]

C8_Witness ==
    /\ pc = "returned" /\ C8Scenario
    /\ 45 * ret.val.scores.skill + 25 * ret.val.scores.presence
         + 30 * ret.val.scores.intent = 605

\* the reasons a caller may give, the empty text among them
ReasonTexts == Reasons \cup {Str(<<>>), Str(<<"ValidationError">>)}

\* C17: for a fixed evaluation input the scores of the fallback report
\* (presence, skill, intent, psi) are the same for every reason, no reason
\* included, and the reason changes the player_evaluation only: the reports
\* of two reasons differ in no other field, and an input on which the
\* estimator raises makes it raise for every reason.
C17_ReasonLeavesScores ==
    (pc # "ready" /\ call.name = "_fallback_report") =>
        \A reason \in ReasonTexts :
            \E other \in {_fallback_report(call.evaluation_data, reason)} :
                IF Raised(ret) THEN other = ret
                ELSE /\ ~Raised(other)
                     /\ other.val.scores = ret.val.scores
                     /\ [other.val EXCEPT !.player_evaluation =
                            ret.val.player_evaluation] = ret.val

\* a report with a reason in its narrative was returned, and the report
\* without a reason has another narrative
C17_Witness ==
    /\ pc = "returned" /\ call.name = "_fallback_report"
    /\ call.reason = Str(<<"x">>)
    /\ ret.val.player_evaluation = Str(<<FALLBACK_MESSAGE, " (Reason: ", "x", ")">>)
    /\ _fallback_report(call.evaluation_data, None).val.player_evaluation
         # ret.val.player_evaluation
    /\ ret.val.scores.presence = 8

\* C18: in every report _fallback_report produces, psi is weighted_psi of
\* the presence, skill and intent of that same report; it is never a
\* default of its own.
C18_FallbackPsiIsWeighted ==
    (pc = "returned" /\ call.name = "_fallback_report") =>
        ret.val.scores.psi = weighted_psi(ret.val.scores.presence,
                                          ret.val.scores.skill,
                                          ret.val.scores.intent)

\* a fallback report whose psi is not 5.0 and whose three scores differ
C18_Witness ==
    /\ pc = "returned" /\ call.name = "_fallback_report"
    /\ ret.val.scores.presence = 8
    /\ ret.val.scores.intent = 6
    /\ ret.val.scores.skill = 10
    /\ ret.val.scores.psi = Num(83, 10)

\* the number a skill note of the last call reads as: float(str(text))
NoteValue(field) == PyFloat(PyStr(Get(call.evaluation_data, field)))

\* whether the note of a skill area reads as a finite number
NumericNote(field) == ~Raised(NoteValue(field)) /\ NoteValue(field).val.t = "num"

\* the integer r is a nearest integer to n/d
Nearest(r, n, d) == 2 * (IF d * r >= n THEN d * r - n ELSE n - d * r) <= d

\* the integer r is the nearest integer to n/d, the even one of two
NearestEven(r, n, d) ==
    /\ Nearest(r, n, d)
    /\ (2 * (IF d * r >= n THEN d * r - n ELSE n - d * r) = d) => r % 2 = 0

\* how many skill notes of the last call read as finite numbers
NumericNotes == Cardinality({f \in SkillFields : NumericNote(f)})

\* C19 (as amended): in a fallback report, skill is the mean of the scores
\* of the skill notes that read as finite numbers, the score of a note being
\* its number rounded to the nearest integer, ties to the even one, and
\* clamped to [0,10]; the mean is rounded to the nearest integer, ties to
\* the even one; skill is 5 when no note reads as a number.  Notes "20" and
\* "0" have the scores 10 and 0, whose mean is 5: skill is 5.
C19_SkillIsMeanOfClampedNotes ==
    (pc = "returned" /\ call.name = "_fallback_report") =>
        LET score == [k \in 1..Len(SKILL_CANDIDATES) |->
                        IF NumericNote(SKILL_CANDIDATES[k])
                        THEN Bind(NoteValue(SKILL_CANDIDATES[k]).val, LAMBDA v :
                                Max(0, Min(10, RoundHalfEven(v.num, v.den))))
                        ELSE 0]
        IN  IF NumericNotes = 0 THEN ret.val.scores.skill = 5
            ELSE NearestEven(ret.val.scores.skill, SumSeq(score), NumericNotes)

\* the notes "20" and "0" and four notes that are no numbers gave skill 5
C19_Witness ==
    /\ pc = "returned" /\ call.name = "_fallback_report"
    /\ NumericNotes = 2
    /\ \E f, g \in SkillFields :
          /\ Get(call.evaluation_data, f) = Str(<<"2", "0">>)
          /\ Get(call.evaluation_data, g) = Str(<<"0">>)
    /\ ret.val.scores.skill = 5

\* C19 (as stated): skill is the mean of the numbers the skill notes read
\* as, rounded to the nearest integer and then clamped to [0,10], and 5
\* when no note reads as a number.
C19_SkillIsClampedMean ==
    (pc = "returned" /\ call.name = "_fallback_report") =>
        LET tenths == [k \in 1..Len(SKILL_CANDIDATES) |->
                        IF NumericNote(SKILL_CANDIDATES[k])
                        THEN (10 \div NoteValue(SKILL_CANDIDATES[k]).val.den)
                             * NoteValue(SKILL_CANDIDATES[k]).val.num
                        ELSE 0]
        IN  IF NumericNotes = 0 THEN ret.val.scores.skill = 5
            ELSE \E n \in -1..30 :
                    /\ Nearest(n, SumSeq(tenths), 10 * NumericNotes)
                    /\ ret.val.scores.skill = Max(0, Min(10, n))

(***************************************************************************)
(* PayloadNormalizer.                                                      *)
(***************************************************************************)
\* bool(v)
Truthy(v) ==
    CASE v.t = "None" -> FALSE
      [] v.t = "num" -> v.num # 0
      [] v.t = "str" -> v.s # <<>>
      [] v.t = "list" -> v.items # <<>>
      [] v.t = "dict" -> DOMAIN v.d # {}
      [] OTHER -> TRUE

EmptyMap == [k \in {} |-> None]

\* the key a hashable value is stored under: a one-token str is that token,
\* every other key is a key that is no field name
KeyOf(v) == IF v.t = "str" /\ Len(v.s) = 1 THEN v.s[1] ELSE "<other>"

\* one element of a sequence given to dict(): it must unpack into two items.
\* A str unpacks into its characters, a token being one character.
PairOf(elem) ==
    CASE elem.t \in {"None", "num", "inf", "nan"} -> Raise("TypeError")
      [] elem.t = "str" ->
            IF Len(elem.s) = 2
            THEN Return([key |-> elem.s[1], value |-> Str(<<elem.s[2]>>)])
            ELSE Raise("ValueError")
      [] elem.t = "list" ->
            IF Len(elem.items) # 2 THEN Raise("ValueError")
            ELSE IF elem.items[1].t \in {"list", "dict"} THEN Raise("TypeError")
            ELSE Return([key |-> KeyOf(elem.items[1]), value |-> elem.items[2]])
      [] OTHER -> Raise("ValueError")

\* dict() of a sequence of elements, a later pair replacing an earlier one
RECURSIVE DictFromPairs(_)
DictFromPairs(items) ==
    IF items = <<>> THEN Return(EmptyMap)
    ELSE Bind(DictFromPairs(SubSeq(items, 1, Len(items) - 1)), LAMBDA front :
         IF Raised(front) THEN front
         ELSE Bind(PairOf(items[Len(items)]), LAMBDA pair :
              IF Raised(pair) THEN pair
              ELSE Return([k \in DOMAIN front.val \cup {pair.val.key} |->
                              IF k = pair.val.key THEN pair.val.value
                              ELSE front.val[k]])))

\* dict(v): the mapping, or the exception dict() raises
PyDict(v) ==
    CASE v.t = "dict" -> Return(v.d)
      [] v.t = "list" -> DictFromPairs(v.items)
      [] v.t = "str" -> IF v.s = <<>> THEN Return(EmptyMap) ELSE Raise("ValueError")
      [] OTHER -> Raise("TypeError")

\* _coerce_score: Return(None) when the value is not a score
_coerce_score(value) ==
    IF value = None \/ value = Str(<<>>) THEN Return(None)
    ELSE IF value.t \in {"num", "inf", "nan"}
         THEN Bind(PyIntRound(value), LAMBDA r :
              IF Raised(r) THEN r ELSE Return(PyInt(r.val)))
    ELSE Bind(PyFloat(PyStr(value)), LAMBDA f :
         IF Raised(f) THEN Except2(f, None)
         ELSE Bind(PyIntRound(f.val), LAMBDA r :
              IF Raised(r) THEN Except2(r, None) ELSE Return(PyInt(r.val))))

\* the psi of the scores: float(psi), or None when it is no number
CoercePsi(psi) ==
    IF psi = None THEN Return(None)
    ELSE Except2(PyFloat(psi), None)

LIST_KEYS ==
    <<"player_strengths", "player_weaknesses", "actions_strengths",
      "actions_weaknesses", "summary_bullets">>
ListKeys == {LIST_KEYS[k] : k \in 1..Len(LIST_KEYS)}

NO_EVALUATION ==
    Str(<<"Gemini response did not include an evaluation. Use coach notes until the AI summary is available.">>)
GENERIC_COURSE_FORWARD ==
    Str(<<"Coach should provide follow-up plan based on session goals.">>)

\* m with the keys of u set to the values of u
Update(m, u) ==
    [k \in DOMAIN m \cup DOMAIN u |-> IF k \in DOMAIN u THEN u[k] ELSE m[k]]

\* a variant that wraps every list value once more
NormaliseListWrapping(value) ==
    IF value.t \in {"str", "list"} THEN List(<<value>>) ELSE List(<<>>)

\* the value a list key gets
NormaliseList(value) ==
    IF value.t = "str" THEN List(<<value>>)
    ELSE IF value.t # "list" THEN List(<<>>)
    ELSE value

\* the payload once its scores are coerced
NormaliseFields(normalised, scores, evaluation_data) ==
    LET withScores == Update(normalised, [k \in {"scores"} |-> Dict(scores)])
        withLists ==
            Update(withScores,
                   [k \in ListKeys |-> NormaliseList(Get(withScores, k))])
        withEvaluation ==
            IF "player_evaluation" \notin DOMAIN withLists
               \/ ~Truthy(withLists["player_evaluation"])
            THEN Update(withLists, [k \in {"player_evaluation"} |-> NO_EVALUATION])
            ELSE withLists
    IN  IF "course_forward" \notin DOMAIN withEvaluation
           \/ ~Truthy(withEvaluation["course_forward"])
        THEN Update(withEvaluation,
                    [k \in {"course_forward"} |->
                        GetOr(evaluation_data, "improvements", GENERIC_COURSE_FORWARD)])
        ELSE withEvaluation

_normalise_payload(payload, evaluation_data) ==
    Bind(PyDict(payload), LAMBDA normalised :
    IF Raised(normalised) THEN normalised
    ELSE Bind(IF Truthy(Get(normalised.val, "scores"))
              THEN PyDict(Get(normalised.val, "scores"))
              ELSE Return(EmptyMap),
              LAMBDA scores :
    IF Raised(scores) THEN scores
    ELSE Bind(_coerce_score(Get(scores.val, "presence")), LAMBDA presence :
    IF Raised(presence) THEN presence
    ELSE Bind(_coerce_score(Get(scores.val, "skill")), LAMBDA skill :
    IF Raised(skill) THEN skill
    ELSE Bind(_coerce_score(Get(scores.val, "intent")), LAMBDA intent :
    IF Raised(intent) THEN intent
    ELSE Bind(CoercePsi(Get(scores.val, "psi")), LAMBDA psi :
    IF Raised(psi) THEN psi
    ELSE Return(Dict(NormaliseFields(
             normalised.val,
             Update(scores.val,
                    [k \in {"presence", "skill", "intent", "psi"} |->
                        CASE k = "presence" ->
                                 IF presence.val # None THEN presence.val ELSE PyInt(5)
                          [] k = "skill" ->
                                 IF skill.val # None THEN skill.val ELSE PyInt(5)
                          [] k = "intent" ->
                                 IF intent.val # None THEN intent.val ELSE PyInt(5)
                          [] k = "psi" -> psi.val]),
             evaluation_data)))))))))
(***************************************************************************)
(* Decoded LLM payloads of the model.                                      *)
(***************************************************************************)
\* the mapping of a record, without the fields that are Absent
Present(rec) == [k \in {f \in DOMAIN rec : rec[f] # Absent} |-> rec[k]]

ScoreValues ==
    {Absent, None, PyInt(0), PyInt(7), PyInt(11), Num(75, 10), Num(25, 10),
     Inf(FALSE), NaN, List(<<>>), Dict(EmptyMap)} \cup Notes
OtherScoreValues == {Absent, PyInt(7), Str(<<"8">>), Num(25, 10)}
PsiValues ==
    {Absent, None, PyInt(7), Num(68, 10), Str(<<"6", ".", "8">>), Str(<<"x">>),
     Inf(FALSE), NaN, List(<<>>)}
ScoresShapes ==
    {Absent, None, PyInt(0), PyInt(7), Str(<<>>), Str(<<"x">>), List(<<>>),
     List(<<PyInt(1)>>), Inf(FALSE), Dict(EmptyMap),
     List(<<List(<<Str(<<"presence">>), PyInt(3)>>)>>)}
ListShapes ==
    {Absent, None, Str(<<>>), Str(<<"x">>), List(<<>>), List(<<Str(<<"x">>)>>),
     List(<<PyInt(1)>>), PyInt(7), Dict(EmptyMap)}
TextShapes == {Absent, None, Str(<<>>), Str(<<"x">>), PyInt(0), PyInt(7)}
ImprovementNotes == {Absent, Str(<<>>), Str(<<"x">>), NOT_PROVIDED}
TopLevelPayloads ==
    {None, PyInt(7), Inf(FALSE), Str(<<>>), Str(<<"x">>), List(<<>>),
     List(<<PyInt(1)>>), List(<<Str(<<"x">>)>>), List(<<Str(<<"x", "x">>)>>),
     List(<<List(<<>>)>>), List(<<List(<<List(<<>>), PyInt(1)>>)>>),
     List(<<List(<<Str(<<"scores">>), Dict([presence |-> PyInt(3)])>>)>>),
     Dict(EmptyMap)}

\* the payload an LLM that follows the schema returns, with the given scores
SchemaPayload(scores) ==
    Dict(Present([
        scores |-> scores,
        player_evaluation |-> Str(<<"x">>),
        player_strengths |-> List(<<Str(<<"x">>)>>),
        player_weaknesses |-> List(<<Str(<<"x">>)>>),
        actions_strengths |-> List(<<Str(<<"x">>)>>),
        actions_weaknesses |-> List(<<Str(<<"x">>)>>),
        course_forward |-> Str(<<"x">>),
        summary_bullets |-> List(<<Str(<<"x">>), Str(<<"x">>), Str(<<"x">>),
                                   Str(<<"x">>), Str(<<"x">>)>>)]))

ScoresPayload(presence, skill, intent, psi) ==
    SchemaPayload(Dict(Present([presence |-> presence, skill |-> skill,
                                intent |-> intent, psi |-> psi])))

ShapedPayload(scores, strengths, bullets, evaluation, course) ==
    Dict(Present([
        scores |-> scores,
        player_evaluation |-> evaluation,
        player_strengths |-> strengths,
        player_weaknesses |-> List(<<Str(<<"x">>)>>),
        course_forward |-> course,
        summary_bullets |-> bullets,
        extra |-> Str(<<"x">>)]))

(***************************************************************************)
(* Specification of the normaliser: a payload and an evaluation mapping    *)
(* are drawn, _normalise_payload is applied to them, and then to its own   *)
(* result.                                                                 *)
(***************************************************************************)
NormaliseCall(payload, evaluation_data) ==
    [name |-> "_normalise_payload", pass |-> 1, payload |-> payload,
     evaluation_data |-> evaluation_data]

InitNormalise ==
    /\ NoVerification
    /\ NoUploads
    /\ MODEL = FALSE
    /\ pc = "ready"
    /\ \/ \E p \in ScoreValues, s \in OtherScoreValues, q \in PsiValues :
            call = NormaliseCall(ScoresPayload(p, s, PyInt(6), q), BaseEvaluation)
       \/ \E i \in ScoreValues, s \in OtherScoreValues :
            call = NormaliseCall(ScoresPayload(PyInt(6), s, i, Absent), BaseEvaluation)
       \/ \E top \in TopLevelPayloads, n \in ImprovementNotes :
            call = NormaliseCall(top, With(BaseEvaluation, "improvements", n))
       \/ \E sc \in ScoresShapes, l \in ListShapes, e \in TextShapes,
             c \in TextShapes, n \in ImprovementNotes :
            \/ call = NormaliseCall(ShapedPayload(sc, l, List(<<>>), e, c),
                                    With(BaseEvaluation, "improvements", n))
            \/ call = NormaliseCall(ShapedPayload(sc, List(<<Str(<<"x">>)>>), l, e, c),
                                    With(BaseEvaluation, "improvements", n))
    /\ ret = Idle
    /\ levels = <<>>
    /\ row = Idle

NormalisePayload ==
    /\ pc = "ready"
    /\ call.name = "_normalise_payload"
    /\ ret' = _normalise_payload(call.payload, call.evaluation_data)
    /\ pc' = IF Raised(ret') THEN "raised" ELSE "returned"
    /\ UNCHANGED <<MODEL, verification, uploads, call, levels, row>>

\* the result of the first pass is normalised once more
NormaliseAgain ==
    /\ pc = "returned"
    /\ call.name = "_normalise_payload"
    /\ call.pass = 1
    /\ call' = [call EXCEPT !.pass = 2, !.payload = ret.val]
    /\ ret' = _normalise_payload(ret.val, call.evaluation_data)
    /\ pc' = IF Raised(ret') THEN "raised" ELSE "returned"
    /\ UNCHANGED <<MODEL, verification, uploads, levels, row>>

NextNormalise == NormalisePayload \/ NormaliseAgain
SpecNormalise == InitNormalise /\ [][NextNormalise]_vars

\* C5: _normalise_payload never raises, whatever the decoded JSON value is.
C5_NormaliseNeverRaises ==
    (call.name = "_normalise_payload" /\ call.pass = 1 /\ pc # "ready")
        => pc = "returned"

\* C6: _normalise_payload is idempotent: normalising the result of a
\* successful normalisation, with the same evaluation mapping, returns that
\* same result.
C6_NormaliseIdempotent ==
    (call.name = "_normalise_payload" /\ call.pass = 2) =>
        /\ pc = "returned"
        /\ ret = Return(call.payload)

\* a second pass over a payload the first pass had to change: a score read
\* from a list of pairs, a list made from a str, a placeholder evaluation
C6_Witness ==
    /\ call.name = "_normalise_payload" /\ call.pass = 2 /\ pc = "returned"
    /\ call.payload.d["scores"].d["presence"] = PyInt(3)
    /\ call.payload.d["player_strengths"] = List(<<Str(<<"x">>)>>)
    /\ call.payload.d["player_evaluation"] = NO_EVALUATION

\* the first pass worked on a payload that is an object whose scores are an
\* object, null or missing
ScoresNormalised ==
    /\ call.name = "_normalise_payload" /\ call.pass = 1 /\ pc # "ready"
    /\ call.payload.t = "dict"
    /\ Get(call.payload.d, "scores").t \in {"None", "dict"}

\* the value the payload of the last call supplies for a score, None when
\* it supplies none
SuppliedScore(key) ==
    IF Get(call.payload.d, "scores") = None THEN None
    ELSE Get(call.payload.d["scores"].d, key)

\* C21: _normalise_payload sets each of presence, skill and intent to the
\* nearest integer of the supplied value when that is an int, a float or a
\* numeric string, and to 5 when it is missing, null, an empty string or
\* not numeric, also when the scores object is missing.
C21_ScoresCoercedOrFive ==
    ScoresNormalised =>
        /\ pc = "returned"
        /\ \A key \in {"presence", "skill", "intent"} :
              \E supplied \in {SuppliedScore(key)} :
              \E number \in {IF supplied.t \in {"num", "inf", "nan"} THEN Return(supplied)
                              ELSE IF supplied.t = "str" THEN PyFloatStr(supplied.s)
                              ELSE Raise("ValueError")} :
                 LET score == ret.val.d["scores"].d[key]
                 IN  IF ~Raised(number) /\ number.val.t = "num"
                     THEN /\ score.t = "num" /\ score.den = 1
                          /\ Nearest(score.num, number.val.num, number.val.den)
                     ELSE IF supplied.t \in {"inf", "nan"}
                          THEN FALSE
                          ELSE score = PyInt(5)
(***************************************************************************)
(* ReportSchema: PSIReport.model_validate of a normalised payload.         *)
(***************************************************************************)
IsStr(v) == v.t = "str"

\* a score field without its bounds ge=0 and le=10
ValidScoreUnbounded(v) == v.t = "num" /\ v.den = 1

\* conint(ge=0, le=10)
ValidScore(v) == v.t = "num" /\ v.den = 1 /\ 0 <= v.num /\ v.num <= 10

ValidListOfStr(m, key) ==
    key \notin DOMAIN m
    \/ (m[key].t = "list" /\ \A k \in 1..Len(m[key].items) : IsStr(m[key].items[k]))

ListField(m, key) == IF key \in DOMAIN m THEN m[key].items ELSE <<>>

\* the report, or ValidationError
ModelValidate(value) ==
    IF value.t # "dict" THEN Raise("ValidationError")
    ELSE LET m == value.d
             sc == IF "scores" \in DOMAIN m /\ m["scores"].t = "dict"
                   THEN m["scores"].d ELSE EmptyMap
         IN  IF /\ "scores" \in DOMAIN m /\ m["scores"].t = "dict"
                /\ \A k \in {"presence", "skill", "intent"} :
                       k \in DOMAIN sc /\ ValidScore(sc[k])
                /\ ("psi" \in DOMAIN sc => (sc["psi"] = None \/ sc["psi"].t \in {"num", "inf", "nan"}))
                /\ "player_evaluation" \in DOMAIN m /\ IsStr(m["player_evaluation"])
                /\ "course_forward" \in DOMAIN m /\ IsStr(m["course_forward"])
                /\ \A key \in ListKeys : ValidListOfStr(m, key)
             THEN Return([
                 scores |-> [presence |-> sc["presence"].num,
                             skill |-> sc["skill"].num,
                             intent |-> sc["intent"].num,
                             psi |-> Get(sc, "psi")],
                 player_evaluation |-> m["player_evaluation"],
                 player_strengths |-> ListField(m, "player_strengths"),
                 player_weaknesses |-> ListField(m, "player_weaknesses"),
                 actions_strengths |-> ListField(m, "actions_strengths"),
                 actions_weaknesses |-> ListField(m, "actions_weaknesses"),
                 course_forward |-> m["course_forward"],
                 summary_bullets |-> ListField(m, "summary_bullets")])
             ELSE Raise("ValidationError")

\* PSIReport.psi_value
psi_value(report) ==
    IF report.scores.psi # None THEN report.scores.psi
    ELSE weighted_psi(report.scores.presence, report.scores.skill,
                      report.scores.intent)

\* PSIReport.as_dict, without the rendered text
as_dict(report) ==
    [report EXCEPT !.scores = [report.scores EXCEPT !.psi = psi_value(report)]]

(***************************************************************************)
(* The LLM collaborator: a call of MODEL.generate_content raises, or       *)
(* returns a response.  The token "JSON" of a response text is the         *)
(* serialisation of the payload the LLM produced; any other text does not  *)
(* decode.                                                                 *)
(***************************************************************************)
\* "".join(texts)
RECURSIVE Join(_)
Join(texts) == IF texts = <<>> THEN <<>> ELSE Head(texts).s \o Join(Tail(texts))

\* the texts of the parts of one candidate
RECURSIVE PartTexts(_)
PartTexts(parts) ==
    IF parts = <<>> THEN <<>>
    ELSE LET part == Head(parts)
         IN  IF Truthy(part.text) THEN <<part.text>> \o PartTexts(Tail(parts))
             ELSE IF Truthy(part.function_call) /\ IsStr(part.function_call.args)
                  THEN <<part.function_call.args>> \o PartTexts(Tail(parts))
             ELSE PartTexts(Tail(parts))

RECURSIVE CandidatesText(_)
CandidatesText(candidates) ==
    IF candidates = <<>> THEN Raise("AttributeError")
    ELSE LET content == Head(candidates).content
         IN  IF ~Truthy(content) \/ ~Truthy(content.parts)
             THEN CandidatesText(Tail(candidates))
             ELSE Bind(PartTexts(content.parts.items), LAMBDA texts :
                  IF texts # <<>> THEN Return(Str(Join(texts)))
                  ELSE CandidatesText(Tail(candidates)))

_response_text(response) ==
    IF response.text # Absent /\ Truthy(response.text) THEN Return(response.text)
    ELSE LET candidates == IF response.candidates = Absent THEN None
                           ELSE response.candidates
         IN  IF ~Truthy(candidates) THEN Raise("AttributeError")
             ELSE CandidatesText(candidates.items)

\* json.loads of the response text of an LLM that produced payload
JsonLoads(raw_text, payload) ==
    IF raw_text.s = <<"JSON">> THEN Return(payload) ELSE Raise("JSONDecodeError")

Part(text, function_call) ==
    [t |-> "part", text |-> text, function_call |-> function_call]
FunctionCall(args) == [t |-> "function_call", args |-> args]
Candidate(content) == [t |-> "candidate", content |-> content]
Content(parts) == [t |-> "content", parts |-> parts]
Response(text, candidates) == [text |-> text, candidates |-> candidates]

JSON_TEXT == Str(<<"JSON">>)
JUNK_TEXT == Str(<<"junk">>)

Responses ==
    {Response(JSON_TEXT, Absent),
     Response(JUNK_TEXT, Absent),
     Response(Str(<<>>), List(<<>>)),
     Response(Absent, None),
     Response(Absent, Absent),
     Response(None, List(<<Candidate(None)>>)),
     Response(None, List(<<Candidate(Content(None)),
                           Candidate(Content(List(<<Part(JSON_TEXT, None)>>)))>>)),
     Response(None, List(<<Candidate(Content(List(<<Part(None, None),
                                                    Part(JUNK_TEXT, None)>>)))>>)),
     Response(None, List(<<Candidate(Content(List(
                  <<Part(None, FunctionCall(JSON_TEXT))>>)))>>)),
     Response(None, List(<<Candidate(Content(List(
                  <<Part(None, FunctionCall(Dict(EmptyMap)))>>)))>>)),
     Response(None, List(<<Candidate(Content(List(
                  <<Part(JSON_TEXT, None), Part(JUNK_TEXT, None)>>)))>>))}

\* the exceptions generate_content raises: a blocked prompt, and a transport
\* failure of the SDK
LLMExceptions == {"BlockedPromptException", "ServiceUnavailable"}

LLMPayloads ==
    {ScoresPayload(PyInt(7), PyInt(8), PyInt(6), Absent),
     ScoresPayload(PyInt(8), PyInt(6), PyInt(7), Num(99, 10)),
     ScoresPayload(PyInt(8), PyInt(6), PyInt(7), PyInt(99)),
     ScoresPayload(Str(<<"8">>), Num(75, 10), None, Str(<<"x">>)),
     ScoresPayload(PyInt(11), PyInt(8), PyInt(6), Absent),
     ScoresPayload(PyInt(7), Str(<<"inf">>), PyInt(6), Absent),
     ScoresPayload(PyInt(7), PyInt(8), NaN, Absent),
     SchemaPayload(Absent),
     SchemaPayload(Str(<<"x">>)),
     SchemaPayload(PyInt(7)),
     ShapedPayload(Absent, List(<<PyInt(1)>>), List(<<>>), Str(<<"x">>), Str(<<"x">>)),
     ShapedPayload(Absent, Str(<<"x">>), Absent, PyInt(7), Absent),
     ShapedPayload(Absent, Absent, Str(<<>>), Absent, Absent),
     List(<<PyInt(1)>>), List(<<>>), Str(<<"x">>), None, PyInt(7)}

\* what the LLM does in one call
LLMRaises(exc) == [raises |-> exc, response |-> Response(Absent, Absent), payload |-> None]
LLMReturns(response, payload) ==
    [raises |-> "none", response |-> response, payload |-> payload]
(***************************************************************************)
(* ReportGenerator: generate_psi_report and the two text endpoints.        *)
(***************************************************************************)
DigitChars == <<"0", "1", "2", "3", "4", "5", "6", "7", "8", "9">>

\* str(value) of a note, a one-digit int or a datetime
_normalise_value(value) ==
    CASE value = None -> NOT_PROVIDED
      [] value.t = "datetime" -> Str(<<"isoformat">>)
      [] value.t = "num" -> Str(<<DigitChars[value.num + 1]>>)
      [] OTHER -> value

\* an evaluation is the request body of /submit-evaluation (it has
\* model_dump) or a persisted row, read attribute by attribute
_extract_evaluation_data(evaluation) ==
    LET data == IF evaluation.model_dump
                THEN evaluation.fields
                ELSE IF evaluation.player # None
                     THEN With([f \in EVALUATION_FIELDS |-> Get(evaluation.fields, f)],
                               "player_name", evaluation.player.name)
                     ELSE [f \in EVALUATION_FIELDS |-> Get(evaluation.fields, f)]
        defaulted == [f \in DOMAIN data \cup {"session_id", "date"} |->
                        IF f \in DOMAIN data THEN data[f]
                        ELSE IF f = "session_id" THEN Str(<<"N/A">>) ELSE [t |-> "datetime"]]
    IN  [f \in DOMAIN defaulted |-> _normalise_value(defaulted[f])]

\* the replacement fields of PROMPT_TEMPLATE
PROMPT_FIELDS ==
    {"player_name", "player_level", "player_gender", "session_id", "date",
     "front_court", "back_court", "attacking_play", "defensive_play",
     "strokeplay", "footwork", "presence", "intent", "improvements",
     "strengths", "comments"}

PLAYER_KEYWORDS == {"player_name", "player_level", "player_gender"}

\* a or b
Or(a, b) == IF Truthy(a) THEN a ELSE b

\* getattr(player, name, None)
PlayerAttr(player, name) == IF player = None THEN None ELSE player[name]

\* dedent(PROMPT_TEMPLATE).format(player_name=..., player_level=...,
\* player_gender=..., **evaluation_data)
PromptFormat(player_name, player_level, player_gender, evaluation_data) ==
    IF PLAYER_KEYWORDS \cap DOMAIN evaluation_data # {} THEN Raise("TypeError")
    ELSE IF PROMPT_FIELDS \subseteq (PLAYER_KEYWORDS \cup DOMAIN evaluation_data)
    THEN Return([player_name |-> player_name, player_level |-> player_level,
                 player_gender |-> player_gender, notes |-> evaluation_data])
    ELSE Raise("KeyError")

\* the exceptions the try statement of generate_psi_report handles
HANDLED == {"BlockedPromptException", "ValidationError", "JSONDecodeError",
            "AttributeError", "TypeError"}

\* one invocation of the LLM
LLM_CALL == [level |-> "generate_content", recovered |-> Absent]

\* MODEL.generate_content invoked again after it raised
GenerateContentRetrying(llm) ==
    IF llm.raises # "none" THEN Traced(Raise(llm.raises), <<LLM_CALL, LLM_CALL>>)
    ELSE Traced(Return(llm.response), <<LLM_CALL>>)

\* response = MODEL.generate_content(prompt)
GenerateContent(llm) ==
    Traced(IF llm.raises # "none" THEN Raise(llm.raises) ELSE Return(llm.response),
           <<LLM_CALL>>)

\* the statements of the try block, with the report they bind and the
\* invocations of the LLM
TryReport(evaluation_data, llm) ==
    Bind(GenerateContent(llm), LAMBDA response :
    IF Raised(response.out) THEN response
    ELSE Bind(_response_text(response.out.val), LAMBDA raw_text :
         IF Raised(raw_text) THEN Traced(raw_text, response.levels)
         ELSE Bind(JsonLoads(raw_text.val, llm.payload), LAMBDA payload :
         IF Raised(payload) THEN Traced(payload, response.levels)
         ELSE Bind(_normalise_payload(payload.val, evaluation_data), LAMBDA normalised :
         IF Raised(normalised) THEN Traced(normalised, response.levels)
         ELSE Traced(ModelValidate(normalised.val), response.levels)))))

\* a variant that overwrites a psi the payload supplied
BackfillPsiAlways(report) ==
    [report EXCEPT !.scores = [report.scores EXCEPT !.psi =
        weighted_psi(report.scores.presence, report.scores.skill,
                     report.scores.intent)]]

\* report.scores.psi = report.weighted_psi() when it is None
BackfillPsi(report) ==
    IF report.scores.psi = None
    THEN [report EXCEPT !.scores = [report.scores EXCEPT !.psi =
            weighted_psi(report.scores.presence, report.scores.skill,
                         report.scores.intent)]]
    ELSE report

\* the report, or the exception that propagates, with the invocations of
\* the LLM; configured is MODEL is not None and llm is what
\* MODEL.generate_content does when called
generate_psi_report(evaluation, player, configured, llm) ==
    Bind(_extract_evaluation_data(evaluation), LAMBDA evaluation_data :
    Bind(PromptFormat(
            Or(PlayerAttr(player, "name"),
               Or(Get(evaluation_data, "player_name"), Str(<<"the athlete">>))),
            Or(PlayerAttr(player, "level"), Str(<<"not specified">>)),
            Or(PlayerAttr(player, "gender"), Str(<<"not specified">>)),
            evaluation_data), LAMBDA prompt :
    IF Raised(prompt) THEN Traced(prompt, <<>>)
    ELSE IF ~configured THEN Traced(_fallback_report(evaluation_data, None), <<>>)
    ELSE Bind(TryReport(evaluation_data, llm), LAMBDA tried :
         Bind(tried.out, LAMBDA report :
         IF Raised(report)
         THEN IF report.exc \in HANDLED
              THEN Traced(_fallback_report(evaluation_data, Str(<<report.exc>>)),
                          tried.levels)
              ELSE tried
         ELSE Traced(Return(BackfillPsi(report.val)), tried.levels)))))

(***************************************************************************)
(* The text endpoints.  row is the evaluation row with id 1: the first     *)
(* /submit-evaluation that succeeds creates it, later ones create other    *)
(* rows, and /generate-report for id 1 rewrites it.                        *)
(***************************************************************************)
PLAYER == [name |-> Str(<<"x">>), level |-> Str(<<"x">>), gender |-> None]
\* db.query(Player).filter(Player.id == player_id).first()
PlayerById(player_id) == IF player_id = 1 THEN PLAYER ELSE None

SubmitPresenceNotes == {Str(<<"8">>), Str(<<"inf">>)}

\* the body of /submit-evaluation
EvaluationTextCreate(player_id, presence) ==
    [model_dump |-> TRUE,
     player |-> None,
     fields |-> With(With([f \in EVALUATION_FIELDS |->
                              IF f = "date" THEN [t |-> "datetime"] ELSE Str(<<"x">>)],
                          "presence", presence),
                     "player_id", PyInt(player_id))]

LLMBehaviours ==
    {LLMRaises(exc) : exc \in LLMExceptions}
    \cup {LLMReturns(response, ScoresPayload(PyInt(7), PyInt(8), PyInt(6), Absent)) :
            response \in Responses}
    \cup {LLMReturns(Response(JSON_TEXT, Absent), payload) : payload \in LLMPayloads}

\* the row as the ORM hands it to generate_psi_report
PersistedEvaluation(r) ==
    [model_dump |-> FALSE, player |-> PlayerById(r.player_id), fields |-> r.fields]

\* the requests of the two endpoints: for an id that is not stored one
\* request stands for all, the handler returning before it reads the rest
SubmitRequests ==
    ({1} \X SubmitPresenceNotes \X LLMBehaviours)
    \cup {<<2, Str(<<"8">>), LLMRaises("BlockedPromptException")>>}

ReportRequests ==
    ({1} \X LLMBehaviours) \cup {<<2, LLMRaises("BlockedPromptException")>>}

Init ==
    /\ NoVerification
    /\ NoUploads
    /\ MODEL \in BOOLEAN
    /\ pc = "ready"
    /\ call = Idle
    /\ ret = Idle
    /\ levels = <<>>
    /\ row = Idle

\* POST /submit-evaluation
SubmitEvaluation ==
    \E request \in SubmitRequests :
        LET player_id == request[1]
            presence == request[2]
            llm == request[3]
            evaluation == EvaluationTextCreate(player_id, presence)
            player == PlayerById(player_id)
        IN  /\ call' = [name |-> "submit_evaluation", player_id |-> player_id,
                     presence |-> presence, llm |-> llm]
            /\ IF player = None
               THEN /\ ret' = Raise("HTTPException404")
                    /\ pc' = "raised"
                    /\ row' = row
                    /\ levels' = <<>>
               ELSE \E traced \in {generate_psi_report(evaluation, player, MODEL, llm)} :
                    \E report \in {traced.out} :
                    IF Raised(report)
                    THEN /\ ret' = report
                         /\ pc' = "raised"
                         /\ row' = row
                         /\ levels' = traced.levels
                    ELSE LET report_payload == as_dict(report.val)
                         IN  /\ levels' = traced.levels
                             /\ ret' = Return([status |-> "Evaluation submitted",
                                               psi_report |-> report_payload])
                             /\ pc' = "returned"
                             /\ row' = IF row # Idle THEN row
                                       ELSE [player_id |-> player_id,
                                             fields |-> [f \in EVALUATION_FIELDS |->
                                                            evaluation.fields[f]],
                                             pressure_score |-> report_payload.scores.presence,
                                             skill_score |-> report_payload.scores.skill,
                                             intent_score |-> report_payload.scores.intent,
                                             psi_score |-> report_payload.scores.psi,
                                             ai_report_json |-> report_payload]
            /\ UNCHANGED <<MODEL, verification, uploads>>

\* POST /generate-report
GenerateReport ==
    \E request \in ReportRequests :
      LET evaluation_id == request[1]
          llm == request[2]
      IN
        /\ call' = [name |-> "generate_report", evaluation_id |-> evaluation_id,
                    llm |-> llm]
        /\ IF row = Idle \/ evaluation_id # 1
           THEN /\ ret' = Raise("HTTPException404")
                /\ pc' = "raised"
                /\ row' = row
                /\ levels' = <<>>
           ELSE LET evaluation == PersistedEvaluation(row)
                IN  \E traced \in
                        {generate_psi_report(evaluation, evaluation.player, MODEL, llm)} :
                    \E report \in {traced.out} :
                    IF Raised(report)
                    THEN /\ ret' = report
                         /\ pc' = "raised"
                         /\ row' = row
                         /\ levels' = traced.levels
                    ELSE LET report_payload == as_dict(report.val)
                         IN  /\ levels' = traced.levels
                             /\ ret' = Return([psi_report |-> report_payload])
                             /\ pc' = "returned"
                             /\ row' = [row EXCEPT
                                   !.pressure_score = report_payload.scores.presence,
                                   !.skill_score = report_payload.scores.skill,
                                   !.intent_score = report_payload.scores.intent,
                                   !.psi_score = report_payload.scores.psi,
                                   !.ai_report_json = report_payload]
        /\ UNCHANGED <<MODEL, verification, uploads>>

Next == SubmitEvaluation \/ GenerateReport

Spec == Init /\ [][Next]_vars

\* the notes generate_psi_report extracts from the body of a submission
SubmittedData(presence) == _extract_evaluation_data(EvaluationTextCreate(1, presence))

\* the presence note of the evaluation the last call worked on
CallPresence ==
    IF call.name = "submit_evaluation" THEN call.presence ELSE row.fields["presence"]

\* the last call reached generate_psi_report
ReachedGenerator ==
    /\ pc # "ready"
    /\ call.name \in {"submit_evaluation", "generate_report"}
    /\ ret # Raise("HTTPException404")

\* what the try block did with the LLM of the last call
CallTry == TryReport(SubmittedData(CallPresence), call.llm).out

\* the failure modes of the LLM: not configured, blocked prompt, transport
\* failure, no extractable text, undecodable text, schema validation
LLMFailed ==
    \/ ~MODEL
    \/ CallTry.exc \in {"BlockedPromptException", "ServiceUnavailable",
                        "AttributeError", "JSONDecodeError", "ValidationError"}

FallbackShaped(report, evaluation_data) ==
    \E reason \in {None} \cup {Str(<<e>>) : e \in HANDLED \cup LLMExceptions} :
        Return(report) = _fallback_report(evaluation_data, reason)

\* C1: whenever the LLM fails in one of its failure modes (not configured,
\* blocked, transport failure, no text, undecodable JSON, schema validation),
\* generate_psi_report returns a fallback-shaped report and no error
\* propagates to the caller.  Stated for coach notes whose numerals are
\* finite, on which the fallback estimator returns.
C1_FailureGivesFallback ==
    (/\ ReachedGenerator /\ call.name = "submit_evaluation"
     /\ call.presence = Str(<<"8">>) /\ LLMFailed)
        => /\ pc = "returned"
           /\ FallbackShaped(ret.val.psi_report, SubmittedData(call.presence))

\* C2: generate_psi_report returns a report for the request body of
\* /submit-evaluation and for the persisted row with its linked player of
\* /generate-report, and the regenerated report overwrites the stored report
\* and the four score fields of the row.  Stated for calls in which the
\* presence note is finite and the LLM either succeeds or fails in a way the
\* generator handles.
C2_BothCallerShapesReturn ==
    (/\ ReachedGenerator
     /\ CallPresence = Str(<<"8">>)
     /\ (~MODEL \/ CallTry.exc \in HANDLED \cup {"none"}))
        => /\ pc = "returned"
           /\ call.name = "generate_report" =>
                /\ row.ai_report_json = ret.val.psi_report
                /\ row.pressure_score = ret.val.psi_report.scores.presence
                /\ row.skill_score = ret.val.psi_report.scores.skill
                /\ row.intent_score = ret.val.psi_report.scores.intent
                /\ row.psi_score = ret.val.psi_report.scores.psi
(***************************************************************************)
(* VideoAnalyzer: generate_video_analysis and its recovery ladder.         *)
(* A response text is a sequence of tokens: the two braces, p for the      *)
(* member that sets presence to 9, the literal null, the word json, the    *)
(* code fence (three backquotes) and one white space.  The token s is the  *)
(* member "scores": {"presence": 99}.                                      *)
(***************************************************************************)
VideoAlphabet == {"{", "}", "p", "null", "json", "fence", " "}
VideoTexts == TokenSeqs(VideoAlphabet, MaxTextLen)

\* the shorter texts that carry scores of their own
ScoreTexts == TokenSeqs({"{", "}", "s"}, MaxTextLen - 1)

\* text.startswith(prefix)
StartsWith(text, prefix) ==
    Len(text) >= Len(prefix) /\ SubSeq(text, 1, Len(prefix)) = prefix

\* text.endswith(suffix)
EndsWith(text, suffix) ==
    Len(text) >= Len(suffix)
    /\ SubSeq(text, Len(text) - Len(suffix) + 1, Len(text)) = suffix

\* the white space of str.strip() and str.split(): the blank and the line break
WHITESPACE == {" ", "\n"}

\* text.strip()
RECURSIVE Strip(_)
Strip(text) ==
    IF text # <<>> /\ Head(text) \in WHITESPACE THEN Strip(Tail(text))
    ELSE IF text # <<>> /\ text[Len(text)] \in WHITESPACE
         THEN Strip(SubSeq(text, 1, Len(text) - 1))
    ELSE text

\* the response text without white space around it and without code fences
CleanResponse(result_text) ==
    LET stripped == Strip(result_text)
        unfenced == IF StartsWith(stripped, <<"fence", "json">>)
                    THEN SubSeq(stripped, 3, Len(stripped)) ELSE stripped
        opened == IF StartsWith(unfenced, <<"fence">>) THEN Tail(unfenced)
                  ELSE unfenced
        closed == IF EndsWith(opened, <<"fence">>)
                  THEN SubSeq(opened, 1, Len(opened) - 1) ELSE opened
    IN  Strip(closed)

\* json.loads(text): white space between the tokens of a document is
\* insignificant, and the documents of the alphabet are null, the empty
\* object and the object with the one member
VideoJsonLoads(text) ==
    LET tokens == SelectSeq(text, LAMBDA c : c # " ")
    IN  CASE tokens = <<"null">> -> Return(None)
          [] tokens = <<"{", "}">> -> Return(Dict(EmptyMap))
          [] tokens = <<"{", "p", "}">> -> Return(Dict([presence |-> PyInt(9)]))
          [] tokens = <<"{", "s", "}">> ->
                Return(Dict([scores |-> Dict([presence |-> PyInt(99)])]))
          [] OTHER -> Raise("JSONDecodeError")

\* the position of the first opening brace, from 1; 0 when there is none
RECURSIVE FindBrace(_, _)
FindBrace(text, i) ==
    IF i > Len(text) THEN 0
    ELSE IF text[i] = "{" THEN i
    ELSE FindBrace(text, i + 1)

\* the position after the brace that closes the one at start_idx, start_idx
\* when the braces never balance
RECURSIVE BraceEnd(_, _, _, _)
BraceEnd(text, start_idx, i, brace_count) ==
    IF i > Len(text) THEN start_idx
    ELSE IF text[i] = "{" THEN BraceEnd(text, start_idx, i + 1, brace_count + 1)
    ELSE IF text[i] = "}"
         THEN IF brace_count - 1 = 0 THEN i + 1
              ELSE BraceEnd(text, start_idx, i + 1, brace_count - 1)
    ELSE BraceEnd(text, start_idx, i + 1, brace_count)

\* the object of the first brace-balanced substring, or None
_try_fix_json(text) ==
    LET start_idx == FindBrace(text, 1)
    IN  IF start_idx = 0 THEN None
        ELSE LET end_idx == BraceEnd(text, start_idx, start_idx, 0)
             IN  IF end_idx > start_idx
                 THEN Bind(VideoJsonLoads(SubSeq(text, start_idx, end_idx - 1)),
                           LAMBDA loaded : IF Raised(loaded) THEN None ELSE loaded.val)
                 ELSE None

VideoScores(presence, skill, intent, psi) ==
    Dict([presence |-> PyInt(presence), skill |-> PyInt(skill),
          intent |-> PyInt(intent), psi |-> psi])

\* the decoded value with the keys of the report it lacks, or the exception
\* dict(data) raises
_normalize_video_analysis(data, player_name, partner_name, game_format) ==
    Bind(PyDict(data), LAMBDA normalized :
    IF Raised(normalized) THEN normalized
    ELSE LET m == normalized.val
             text_keys == {"player_evaluation", "course_forward"}
             keys == DOMAIN m \cup {"scores"} \cup ListKeys \cup text_keys
                     \cup {"technical_analysis", "movement_footwork",
                           "tactical_insights"}
                     \cup (IF game_format = "doubles" THEN {"team_performance"} ELSE {})
         IN  Return(Dict([k \in keys |->
                CASE k = "scores" ->
                        IF k \in DOMAIN m THEN m[k] ELSE VideoScores(5, 5, 5, Num(50, 10))
                  [] k \in ListKeys ->
                        IF k \in DOMAIN m /\ m[k].t = "list" THEN m[k] ELSE List(<<>>)
                  [] k \in text_keys ->
                        IF k \in DOMAIN m /\ Truthy(m[k]) THEN m[k]
                        ELSE Str(<<"Analysis in progress">>)
                  [] OTHER ->
                        IF k \in DOMAIN m THEN m[k] ELSE Dict(EmptyMap)])))

\* whether the pattern for the presence score finds a match in text
PresenceMatch(text) == \E i \in 1..Len(text) : text[i] \in {"p", "s"}

\* int(presence_match.group(1)): the digits of the first match
MatchedPresence(text) ==
    LET first == CHOOSE i \in 1..Len(text) :
                    /\ text[i] \in {"p", "s"}
                    /\ \A j \in 1..(i - 1) : text[j] \notin {"p", "s"}
    IN  IF text[first] = "p" THEN 9 ELSE 99

\* the report of the text parser when presence defaults to presence_default
TextAnalysis(text, game_format, presence_default) ==
    LET extracted == Str(<<"Analysis extracted from response - see evaluation">>)
        review == Str(<<"Review detailed analysis for specific recommendations">>)
    IN
    Dict([scores |-> VideoScores(IF PresenceMatch(text) THEN MatchedPresence(text)
                                 ELSE presence_default,
                                 7, 7, Num(70, 10)),
          technical_analysis |-> Dict(EmptyMap),
          movement_footwork |-> Dict(EmptyMap),
          tactical_insights |-> Dict(EmptyMap),
          player_evaluation |-> Str(text),
          player_strengths |-> List(<<extracted>>),
          player_weaknesses |-> List(<<extracted>>),
          actions_strengths |-> List(<<review>>),
          actions_weaknesses |-> List(<<review>>),
          course_forward |-> Str(<<"Full analysis available in player evaluation">>),
          summary_bullets |-> List(<<Str(<<"Video analysis generated">>),
                                     Str(<<"Review full report for details">>)>>),
          team_performance |-> IF game_format = "doubles" THEN Dict(EmptyMap) ELSE None])

\* a variant whose scores default to 5
_parse_text_video_analysis_fives(text, player_name, partner_name, game_format) ==
    Return(TextAnalysis(text, game_format, 5))

\* the scores the patterns find in the text, 7 where a pattern finds none
_parse_text_video_analysis(text, player_name, partner_name, game_format) ==
    Return(TextAnalysis(text, game_format, 7))
CannedAnalysis(player_name, partner_name, game_format) ==
    LET doubles == game_format = "doubles" /\ Truthy(partner_name)
        Doubles(value) == IF doubles THEN value ELSE Absent
    IN  Dict(Present([
            scores |-> VideoScores(7, 8, 7, Num(75, 10)),
            player_evaluation |-> Str(<<"Strong technical foundation">>),
            team_performance |-> Doubles(Dict(EmptyMap)),
            partner_scores |-> Doubles(VideoScores(6, 7, 8, Num(71, 10))),
            partner_evaluation |-> Doubles(Str(<<"shows strong attacking intent">>)),
            partner_strengths |-> Doubles(List(<<Str(<<"x">>)>>)),
            partner_weaknesses |-> Doubles(List(<<Str(<<"x">>)>>)),
            partner_actions_strengths |-> Doubles(List(<<Str(<<"x">>)>>)),
            partner_actions_weaknesses |-> Doubles(List(<<Str(<<"x">>)>>)),
            partner_course_forward |-> Doubles(Str(<<"x">>)),
            partner_summary_bullets |-> Doubles(List(<<Str(<<"x">>)>>))]))

\* the canned report, or the NameError of a name that is not defined: the
\* report reads names, and the function sees its parameters and the names
\* of the module
_fallback_video_analysis(player_name, partner_name, game_format, reason) ==
    IF {"player_name", "partner_name", "player_level"}
          \subseteq {"player_name", "partner_name", "game_format", "reason",
                     "MODEL", "MODEL_NAME", "google_genai", "PSI_WEIGHTS",
                     "WEIGHT_TOTAL"}
    THEN Return(CannedAnalysis(player_name, partner_name, game_format))
    ELSE Raise("NameError")

\* one step of generate_video_analysis: a level of the ladder with what it
\* recovered, or the call of the canned fallback
Level(name, recovered) == [level |-> name, recovered |-> recovered]
FALLBACK_STEP == Level("fallback", Absent)

\* the first state of the uploaded file that is not PROCESSING
RECURSIVE PollState(_)
PollState(states) ==
    IF Len(states) > 1 /\ Head(states) = "PROCESSING" THEN PollState(Tail(states))
    ELSE Head(states)

\* the value of: partner_name if partner else None
PartnerName(game_format, partner) ==
    IF partner = None THEN Return(None)
    ELSE IF game_format = "doubles" THEN Return(partner.name)
    ELSE Raise("UnboundLocalError")

\* a call of helper with the partner name as an argument: the argument is
\* evaluated first
WithPartner(partner_name, step, Helper(_)) ==
    IF Raised(partner_name) THEN Traced(partner_name, <<>>)
    ELSE Traced(Helper(partner_name.val), step)

\* the recovery ladder on the cleaned response text
Ladder(result_text, player_name, partner_name, game_format) ==
    Bind(VideoJsonLoads(result_text), LAMBDA analysis_data :
    IF ~Raised(analysis_data)
    THEN LET direct == <<Level("direct", analysis_data.val)>>
             built == WithPartner(partner_name, <<>>, LAMBDA n :
                        _normalize_video_analysis(analysis_data.val, player_name,
                                                  n, game_format))
         IN  Traced(built.out, direct)
    ELSE Bind(_try_fix_json(result_text), LAMBDA fixed_result :
         LET tried == <<Level("direct", Absent), Level("fix", fixed_result)>>
         IN  IF Truthy(fixed_result)
             THEN Traced(WithPartner(partner_name, <<>>, LAMBDA n :
                            _normalize_video_analysis(fixed_result, player_name,
                                                      n, game_format)).out, tried)
             ELSE LET parsed == WithPartner(partner_name, <<Level("text", Absent)>>,
                                   LAMBDA n : _parse_text_video_analysis(
                                       result_text, player_name, n, game_format))
                  IN  Traced(parsed.out, tried \o parsed.levels)))

\* the statements of the try block
TryVideo(video, player_name, partner_name, sdk) ==
    IF video.video_path = "data:video" /\ ~video.has_comma
    THEN Traced(Raise("IndexError"), <<>>)
    ELSE IF sdk.upload = "raises" THEN Traced(Raise("ServiceUnavailable"), <<>>)
    ELSE IF PollState(sdk.states) = "FAILED" THEN Traced(Raise("Exception"), <<>>)
    ELSE IF sdk.generate = "raises" THEN Traced(Raise("ServiceUnavailable"), <<>>)
    ELSE Bind(_response_text(sdk.response), LAMBDA result_text :
         IF Raised(result_text) THEN Traced(result_text, <<>>)
         ELSE Ladder(CleanResponse(result_text.val.s), player_name, partner_name,
                     video.game_format))

\* the canned fallback as generate_video_analysis calls it
CallFallback(player_name, partner_name, game_format, reason, steps) ==
    IF Raised(partner_name) THEN Traced(partner_name, steps)
    ELSE Traced(_fallback_video_analysis(player_name, partner_name.val,
                                         game_format, reason),
                steps \o <<FALLBACK_STEP>>)

\* the report or the exception that propagates, with the steps taken
generate_video_analysis(video, player, partner, configured, sdk) ==
    LET player_name == player.name
        partner_name == PartnerName(video.game_format, partner)
    IN  IF ~configured
        THEN CallFallback(player_name, partner_name, video.game_format,
                          Str(<<"Gemini API not configured">>), <<>>)
        ELSE Bind(TryVideo(video, player_name, partner_name, sdk), LAMBDA tried :
             IF Raised(tried.out)
             THEN CallFallback(player_name, partner_name, video.game_format,
                               Str(<<tried.out.exc>>), tried.levels)
             ELSE tried)
PARTNER == [name |-> Str(<<"y">>), level |-> Str(<<"x">>), gender |-> None]

VideoAnalysis(game_format, video_path, has_comma) ==
    [game_format |-> game_format, video_path |-> video_path, has_comma |-> has_comma]

\* what the SDK does during one call
Sdk(upload, states, generate, response) ==
    [upload |-> upload, states |-> states, generate |-> generate,
     response |-> response]
SdkReturns(text) == Sdk("ok", <<"ACTIVE">>, "ok", Response(Str(text), Absent))

\* the SDK failing at each step, and succeeding after a wait
OtherSdks ==
    {Sdk("raises", <<"ACTIVE">>, "ok", Response(Absent, Absent)),
     Sdk("ok", <<"FAILED">>, "ok", Response(Absent, Absent)),
     Sdk("ok", <<"PROCESSING", "FAILED">>, "ok", Response(Absent, Absent)),
     Sdk("ok", <<"ACTIVE">>, "raises", Response(Absent, Absent)),
     Sdk("ok", <<"ACTIVE">>, "ok", Response(Absent, None)),
     Sdk("ok", <<"PROCESSING", "PROCESSING", "ACTIVE">>, "ok",
         Response(Str(<<"{", "p", "}">>), Absent))}

VideoCall(video, partner, sdk) ==
    [name |-> "generate_video_analysis", video |-> video, partner |-> partner,
     sdk |-> sdk]

InitVideo ==
    /\ NoVerification
    /\ NoUploads
    /\ pc = "ready"
    /\ ret = Idle
    /\ levels = <<>>
    /\ row = Idle
    /\ \/ /\ MODEL = TRUE
          /\ \E text \in VideoTexts \cup ScoreTexts,
                game_format \in {"singles", "doubles"},
                partner \in {None, PARTNER} :
                call = VideoCall(VideoAnalysis(game_format, "path", FALSE), partner,
                                 SdkReturns(text))
       \/ /\ MODEL \in BOOLEAN
          /\ \E sdk \in OtherSdks, game_format \in {"singles", "doubles"},
                partner \in {None, PARTNER},
                video_path \in {"data:video", "path"}, has_comma \in BOOLEAN :
                call = VideoCall(VideoAnalysis(game_format, video_path, has_comma),
                                 partner, sdk)

GenerateVideoAnalysis ==
    /\ pc = "ready"
    /\ call.name = "generate_video_analysis"
    /\ \E result \in {generate_video_analysis(call.video, PLAYER, call.partner,
                                              MODEL, call.sdk)} :
          /\ ret' = result.out
          /\ levels' = result.levels
          /\ pc' = IF Raised(result.out) THEN "raised" ELSE "returned"
    /\ UNCHANGED <<MODEL, verification, uploads, call, row>>

NextVideo == GenerateVideoAnalysis

SpecVideo == InitVideo /\ [][NextVideo]_vars

\* the steps of the last call that are levels of the ladder
LadderLevels == SelectSeq(levels, LAMBDA step : step # FALLBACK_STEP)
CannedUsed == \E i \in 1..Len(levels) : levels[i] = FALLBACK_STEP
TextLevelRan == \E i \in 1..Len(levels) : levels[i].level = "text"
\* a level recovered an object
Recovered(step) == step.recovered.t = "dict"

\* the cleaned text of the response the ladder works on
HasText == call.sdk.response.text # Absent
CallText == CleanResponse(call.sdk.response.text.s)

\* C4: generate_video_analysis never propagates an error: for every kind of
\* failure, singles or doubles, with or without a partner object, it
\* returns the canned fallback report.
C4_VideoNeverPropagates ==
    /\ pc # "raised"
    /\ (pc = "returned" /\ CannedUsed) =>
          ret = Return(CannedAnalysis(PLAYER.name,
                          PartnerName(call.video.game_format, call.partner).val,
                          call.video.game_format))

\* C9: the ladder tries direct decoding, then the repair of the first
\* brace-balanced substring, then the text parser, a level only after the
\* one before it failed: once a level has recovered an object, the empty
\* object included, no later level runs and a result that is returned is
\* built from that object.
C9_LadderStopsAtFirstObject ==
    /\ \E n \in 0..3 :
          [i \in 1..Len(LadderLevels) |-> LadderLevels[i].level]
              = SubSeq(<<"direct", "fix", "text">>, 1, n)
    /\ \A i \in 1..Len(LadderLevels) :
          Recovered(LadderLevels[i]) =>
             /\ i = Len(LadderLevels)
             /\ pc = "returned" =>
                   ret = _normalize_video_analysis(
                       LadderLevels[i].recovered, PLAYER.name, None,
                       call.video.game_format)

\* the ladder finds nothing in the text: it does not decode, it has no
\* brace-balanced substring that decodes, and no field pattern matches
NothingRecoverable ==
    /\ MODEL /\ pc # "ready" /\ HasText
    /\ call.sdk.response.text.s # <<>>
    /\ Raised(VideoJsonLoads(CallText))
    /\ _try_fix_json(CallText) = None
    /\ ~PresenceMatch(CallText)

EVALUATION_WORD_LIMIT == 100
COURSE_WORD_LIMIT == 300
BULLET_WORD_LIMIT == 10
SUMMARY_BULLETS == 5
\* the token of the ellipsis character
ELLIPSIS == "..."

\* the words of text[lo..hi], computed by halves: a word that crosses the
\* middle is put together again
RECURSIVE WordsBetween(_, _, _)
WordsBetween(text, lo, hi) ==
    IF hi < lo THEN <<>>
    ELSE IF lo = hi
         THEN (IF text[lo] \in WHITESPACE THEN <<>> ELSE << <<text[lo]>> >>)
    ELSE LET mid == (lo + hi) \div 2
             left == WordsBetween(text, lo, mid)
             right == WordsBetween(text, mid + 1, hi)
         IN  IF text[mid] \notin WHITESPACE /\ text[mid + 1] \notin WHITESPACE
             THEN SubSeq(left, 1, Len(left) - 1)
                  \o << left[Len(left)] \o right[1] >> \o Tail(right)
             ELSE left \o right

\* text.split(): the maximal runs of tokens that are no white space
SplitWords(text) == WordsBetween(text, 1, Len(text))

\* the parts lo..hi with the separator between them, computed by halves
RECURSIVE JoinBetween(_, _, _, _)
JoinBetween(parts, separator, lo, hi) ==
    IF hi < lo THEN <<>>
    ELSE IF lo = hi THEN parts[lo]
    ELSE LET mid == (lo + hi) \div 2
         IN  JoinBetween(parts, separator, lo, mid) \o <<separator>>
             \o JoinBetween(parts, separator, mid + 1, hi)

\* separator.join(parts)
JoinWith(parts, separator) == JoinBetween(parts, separator, 1, Len(parts))

\* a variant that keeps one word less
_truncate_words_short(text, limit) ==
    LET words == SplitWords(text)
    IN  IF Len(words) <= limit THEN Strip(text)
        ELSE Append(Strip(JoinWith(SubSeq(words, 1, limit - 1), " ")), ELLIPSIS)

_truncate_words(text, limit) ==
    LET words == SplitWords(text)
    IN  IF Len(words) <= limit THEN Strip(text)
        ELSE Append(Strip(JoinWith(SubSeq(words, 1, limit), " ")), ELLIPSIS)

_truncate_bullet(text) == _truncate_words(text, BULLET_WORD_LIMIT)

NO_ITEMS == <<"No items provided">>
NO_SUMMARY == <<"No summary provided">>

\* the items that are not blank, stripped; the placeholder when there is none
_ensure_items(items) ==
    LET kept == SelectSeq(items, LAMBDA item : item.s # <<>> /\ Strip(item.s) # <<>>)
        sequence == [k \in 1..Len(kept) |-> Strip(kept[k].s)]
    IN  IF sequence # <<>> THEN sequence ELSE <<NO_ITEMS>>

\* the text of a float with a finite decimal expansion, of inf and of nan
RECURSIVE FractionText(_, _)
FractionText(fraction, den) ==
    IF den = 1 THEN "0"
    ELSE IF den = 10 THEN ToString(fraction)
    ELSE ToString(fraction \div (den \div 10))
            \o FractionText(fraction % (den \div 10), den \div 10)

FloatText(v) ==
    CASE v.t = "inf" -> IF v.neg THEN "-inf" ELSE "inf"
      [] v.t = "nan" -> "nan"
      [] OTHER ->
            LET magnitude == IF v.num < 0 THEN -v.num ELSE v.num
            IN  (IF v.num < 0 THEN "-" ELSE "")
                \o ToString(magnitude \div v.den) \o "."
                \o FractionText(magnitude % v.den, v.den)

\* the lines of a section: one bullet line for each item
BulletLines(items) == [k \in 1..Len(items) |-> <<"-", " ">> \o items[k]]

\* the five summary bullets: the first five items, then the placeholder
SummaryBullets(summary_bullets) ==
    LET kept == _ensure_items(summary_bullets)
        first == SubSeq(kept, 1, Min(Len(kept), SUMMARY_BULLETS))
    IN  first \o [k \in 1..(SUMMARY_BULLETS - Len(first)) |-> NO_SUMMARY]

\* PSIReport.formatted
formatted(report) ==
    LET bullets == SummaryBullets(report.summary_bullets)
        lines ==
            << <<"Presence Score (P): ", ToString(report.scores.presence), "/10">>,
               <<"Skill Score (S): ", ToString(report.scores.skill), "/10">>,
               <<"Intent Score (I): ", ToString(report.scores.intent), "/10">>,
               <<>>,
               <<"PSI Evaluation: ", FloatText(psi_value(report)), "/10 (...)">>,
               <<>>,
               <<"Player evaluation:">>,
               _truncate_words(report.player_evaluation.s, EVALUATION_WORD_LIMIT),
               <<>>,
               <<"Player strengths:">> >>
            \o BulletLines(_ensure_items(report.player_strengths))
            \o << <<>>, <<"Player weaknesses:">> >>
            \o BulletLines(_ensure_items(report.player_weaknesses))
            \o << <<>>, <<"Actions to be taken on Strengths:">> >>
            \o BulletLines(_ensure_items(report.actions_strengths))
            \o << <<>>, <<"Actions to be taken on Weaknesses:">> >>
            \o BulletLines(_ensure_items(report.actions_weaknesses))
            \o << <<>>, <<"The recommended course forward:">>,
                  _truncate_words(report.course_forward.s, COURSE_WORD_LIMIT),
                  <<>>, <<"Summary:">> >>
            \o BulletLines([k \in 1..Len(bullets) |-> _truncate_bullet(bullets[k])])
    IN  Str(Strip(JoinWith(lines, "\n")))
\* the texts of an item of a list field
ItemAlphabet == {"w", " ", "\n", "-"}
Items == {Str(s) : s \in TokenSeqs(ItemAlphabet, MaxItemLen)}
BasicItems == {Str(<<>>), Str(<<" ">>), Str(<<"w">>)}
ItemLists ==
    {<<item>> : item \in Items} \cup TokenSeqs(BasicItems, MaxListLen)

\* count words, each after the separator
Repeated(count, separator) ==
    LET unit == separator \o <<"w">>
    IN  [k \in 1..(count * Len(unit)) |-> unit[((k - 1) % Len(unit)) + 1]]

\* texts of fewer words than the limit, of as many and of more, with the
\* white space that may stand between and around them
WordTexts(limit) ==
    {Str(lead \o Tail(Repeated(count, <<" ">>)) \o trail) :
        count \in {1, 2, limit - 1, limit, limit + 1, limit + 50},
        lead \in {<<>>, <<"\n">>}, trail \in {<<>>, <<" ">>}}
    \cup {Str(Repeated(count, separator)) :
            count \in {0, 1, limit, limit + 1},
            separator \in {<<" ">>, <<" ", "\n">>}}

\* a report that validation accepted
RenderedReport(evaluation, course, fields) ==
    [scores |-> [presence |-> 7, skill |-> 8, intent |-> 6, psi |-> None],
     player_evaluation |-> evaluation,
     player_strengths |-> fields["player_strengths"],
     player_weaknesses |-> fields["player_weaknesses"],
     actions_strengths |-> fields["actions_strengths"],
     actions_weaknesses |-> fields["actions_weaknesses"],
     course_forward |-> course,
     summary_bullets |-> fields["summary_bullets"]]

\* the list fields, all of one item but the field named
ListFields(key, items) == [k \in ListKeys |-> IF k = key THEN items ELSE <<Str(<<"w">>)>>]

\* PSIReport.as_dict: the dump of the report with the psi value and the
\* rendered text
AsDictWithText(report) ==
    [k \in DOMAIN as_dict(report) \cup {"formatted"} |->
        IF k = "formatted" THEN formatted(report) ELSE as_dict(report)[k]]

\* reports as model_validate returns them in generate_psi_report, with the
\* psi of the payload or without one
ValidatedReports ==
    {[RenderedReport(Str(<<"w">>), Str(<<"w">>), ListFields("none", <<>>))
        EXCEPT !.scores = [presence |-> p, skill |-> s, intent |-> i, psi |-> q]] :
        p \in {0, 7, 10}, s \in {0, 8, 10}, i \in {0, 6, 10},
        q \in {None, Num(99, 10), PyInt(0)}}

InitRender ==
    /\ NoVerification
    /\ NoUploads
    /\ MODEL = FALSE
    /\ pc = "ready"
    /\ ret = Idle
    /\ levels = <<>>
    /\ row = Idle
    /\ \/ \E validated \in ValidatedReports :
            call = [name |-> "model_validate", report |-> validated,
                    validated |-> validated, method |-> "none"]
       \/ \E report \in
            {RenderedReport(Str(<<"w">>), Str(<<"w">>), ListFields(key, items)) :
                key \in ListKeys, items \in ItemLists}
            \cup {RenderedReport(Str(<<"w">>), Str(<<"w">>),
                                 ListFields("summary_bullets", <<bullet>>)) :
                    bullet \in WordTexts(BULLET_WORD_LIMIT)}
            \cup {RenderedReport(evaluation, Str(<<"w">>), ListFields("none", <<>>)) :
                    evaluation \in WordTexts(EVALUATION_WORD_LIMIT)}
            \cup {RenderedReport(Str(<<"w">>), course, ListFields("none", <<>>)) :
                    course \in WordTexts(COURSE_WORD_LIMIT)} :
            call = [name |-> "formatted", report |-> report]

Formatted ==
    /\ pc = "ready"
    /\ call.name = "formatted"
    /\ ret' = Return(formatted(call.report))
    /\ pc' = "returned"
    /\ UNCHANGED <<MODEL, verification, uploads, call, levels, row>>

\* the last statements of generate_psi_report, on the report that
\* model_validate returned: call.report is the report object from now on
ReturnReport ==
    /\ pc = "ready"
    /\ call.name = "model_validate"
    /\ call' = [call EXCEPT !.name = "generate_psi_report",
                            !.report = BackfillPsi(call.report)]
    /\ ret' = Return(BackfillPsi(call.report))
    /\ pc' = "returned"
    /\ UNCHANGED <<MODEL, verification, uploads, levels, row>>

\* the three methods callers apply to the returned report; none of them
\* assigns to a field of the report
ReportPsiValue ==
    /\ pc = "returned"
    /\ call.name = "generate_psi_report"
    /\ call' = [call EXCEPT !.method = "psi_value"]
    /\ ret' = Return(psi_value(call.report))
    /\ UNCHANGED <<MODEL, verification, uploads, pc, levels, row>>

ReportFormatted ==
    /\ pc = "returned"
    /\ call.name = "generate_psi_report"
    /\ call' = [call EXCEPT !.method = "formatted"]
    /\ ret' = Return(formatted(call.report))
    /\ UNCHANGED <<MODEL, verification, uploads, pc, levels, row>>

ReportAsDict ==
    /\ pc = "returned"
    /\ call.name = "generate_psi_report"
    /\ call' = [call EXCEPT !.method = "as_dict"]
    /\ ret' = Return(AsDictWithText(call.report))
    /\ UNCHANGED <<MODEL, verification, uploads, pc, levels, row>>

NextRender ==
    Formatted \/ ReturnReport \/ ReportPsiValue \/ ReportFormatted \/ ReportAsDict

SpecRender == InitRender /\ [][NextRender]_vars

\* the position of the first token of text that is heading, from position i
FindToken(text, heading, i) ==
    LET found == {k \in i..Len(text) : text[k] = heading}
    IN  IF found = {} THEN 0 ELSE CHOOSE k \in found : \A j \in found : k <= j

\* the part of a rendered text after the line of heading and before the
\* blank line that precedes the line of next, to the end when next is ""
Section(text, heading, next) ==
    LET from == FindToken(text, heading, 1) + 2
        to == IF next = "" THEN Len(text) ELSE FindToken(text, next, from) - 3
    IN  SubSeq(text, from, to)

\* the lines of text[lo..hi], computed by halves
RECURSIVE LinesBetween(_, _, _)
LinesBetween(text, lo, hi) ==
    IF hi < lo THEN << <<>> >>
    ELSE IF lo = hi
         THEN (IF text[lo] = "\n" THEN << <<>>, <<>> >> ELSE << <<text[lo]>> >>)
    ELSE LET mid == (lo + hi) \div 2
             left == LinesBetween(text, lo, mid)
             right == LinesBetween(text, mid + 1, hi)
         IN  SubSeq(left, 1, Len(left) - 1)
             \o << left[Len(left)] \o right[1] >> \o Tail(right)

\* the lines of a text
LinesOf(text) == LinesBetween(text, 1, Len(text))

\* the bullet lines of a section: its lines that begin with the dash and a blank
SectionBullets(text, heading, next) ==
    SelectSeq(LinesOf(Section(text, heading, next)),
              LAMBDA line : Len(line) >= 2 /\ line[1] = "-" /\ line[2] = " ")

Blank(items) == \A k \in 1..Len(items) : Strip(items[k].s) = <<>>

\* the bullet lines of the list field key in the rendered text
RenderedBullets(key) ==
    CASE key = "player_strengths" ->
            SectionBullets(ret.val.s, "Player strengths:", "Player weaknesses:")
      [] key = "player_weaknesses" ->
            SectionBullets(ret.val.s, "Player weaknesses:",
                           "Actions to be taken on Strengths:")
      [] key = "actions_strengths" ->
            SectionBullets(ret.val.s, "Actions to be taken on Strengths:",
                           "Actions to be taken on Weaknesses:")
      [] key = "actions_weaknesses" ->
            SectionBullets(ret.val.s, "Actions to be taken on Weaknesses:",
                           "The recommended course forward:")
      [] OTHER -> SectionBullets(ret.val.s, "Summary:", "")

Rendered == pc = "returned" /\ call.name = "formatted"

\* C11: the rendered text of every report has exactly 5 bullet lines under
\* the summary heading and at least one bullet line under each of the four
\* other list headings; a list that is empty or all blank renders as the
\* one placeholder bullet.
C11_FiveSummaryBullets ==
    Rendered =>
        /\ Len(RenderedBullets("summary_bullets")) = SUMMARY_BULLETS
        /\ \A key \in ListKeys \ {"summary_bullets"} :
              /\ Len(RenderedBullets(key)) >= 1
              /\ Blank(call.report[key]) =>
                    RenderedBullets(key) = << <<"-", " ">> \o NO_ITEMS >>

\* the rendered player evaluation and the rendered course forward
RenderedEvaluation == Section(ret.val.s, "Player evaluation:", "Player strengths:")
RenderedCourse == Section(ret.val.s, "The recommended course forward:", "Summary:")

\* the report has one summary bullet, and it is not blank
OneSummaryBullet ==
    /\ Len(call.report.summary_bullets) = 1
    /\ ~Blank(call.report.summary_bullets)

\* the rendered first summary bullet of such a report: the summary section
\* without the dash and the blank before it and the four padding bullets
\* after it
RenderedBullet ==
    LET section == Section(ret.val.s, "Summary:", "")
    IN  SubSeq(section, 3, Len(section) - 4 * (SUMMARY_BULLETS - 1))

\* rendered is the first limit words of a longer text, one blank between
\* them, and the ellipsis
CutToLimit(text, limit, rendered) ==
    rendered = JoinWith(SubSeq(SplitWords(text), 1, limit), " ") \o <<ELLIPSIS>>

\* C12 (as amended): a text of more than the limit of words (100 for the
\* player evaluation, 300 for the course forward, 10 for a summary bullet)
\* renders as its first limit words, one blank between them, followed by the
\* ellipsis; a text of at most the limit of words renders without the white
\* space at its two ends, otherwise unchanged, and with no ellipsis.
C12_TruncatesToLimit ==
    Rendered =>
        \A case \in
            {<<call.report.player_evaluation.s, EVALUATION_WORD_LIMIT, RenderedEvaluation>>,
             <<call.report.course_forward.s, COURSE_WORD_LIMIT, RenderedCourse>>}
            \cup (IF OneSummaryBullet
                  THEN {<<call.report.summary_bullets[1].s, BULLET_WORD_LIMIT,
                          RenderedBullet>>}
                  ELSE {}) :
            IF Len(SplitWords(case[1])) > case[2]
            THEN CutToLimit(case[1], case[2], case[3])
            ELSE case[3] = Strip(case[1])

\* a player evaluation of 150 words was rendered as 100 words and the
\* ellipsis
C12_Witness ==
    /\ Rendered
    /\ Len(SplitWords(call.report.player_evaluation.s)) = EVALUATION_WORD_LIMIT + 50
    /\ Len(SplitWords(RenderedEvaluation)) = EVALUATION_WORD_LIMIT
    /\ RenderedEvaluation[Len(RenderedEvaluation)] = ELLIPSIS

\* C12 (as stated): a text of at most the limit of words renders unchanged.
C12_ShortTextUnchanged ==
    Rendered =>
        \A case \in
            {<<call.report.player_evaluation.s, EVALUATION_WORD_LIMIT, RenderedEvaluation>>,
             <<call.report.course_forward.s, COURSE_WORD_LIMIT, RenderedCourse>>}
            \cup (IF OneSummaryBullet
                  THEN {<<call.report.summary_bullets[1].s, BULLET_WORD_LIMIT,
                          RenderedBullet>>}
                  ELSE {}) :
            IF Len(SplitWords(case[1])) > case[2]
            THEN CutToLimit(case[1], case[2], case[3])
            ELSE case[3] = case[1]

(***************************************************************************)
(* Properties of the reports the text endpoints receive from               *)
(* generate_psi_report.                                                    *)
(***************************************************************************)
\* the last call returned a report
ReportReturned == ReachedGenerator /\ pc = "returned"

\* C13: every report generate_psi_report returns, from the LLM's payload or
\* from the fallback estimator, has presence, skill and intent as integers
\* in [0,10].
C13_ReturnedScoresInRange ==
    ReportReturned =>
        \A k \in {"presence", "skill", "intent"} :
            ret.val.psi_report.scores[k] \in 0..10

\* a report built from the LLM's payload was returned
C13_Witness ==
    /\ ReportReturned /\ MODEL
    /\ call.llm.payload = ScoresPayload(PyInt(7), PyInt(8), PyInt(6), Absent)
    /\ ~Raised(CallTry)
    /\ ret.val.psi_report.scores.presence = 7

\* C14: in every report generate_psi_report returns, as it is serialised by
\* as_dict and persisted, no list field is empty or made of blank strings
\* only, and summary_bullets has exactly 5 entries.
C14_ListsFilledAndFiveBullets ==
    ReportReturned =>
        /\ \A key \in ListKeys : ~Blank(ret.val.psi_report[key])
        /\ Len(ret.val.psi_report.summary_bullets) = SUMMARY_BULLETS

\* what generate_psi_report gives for the evaluation, the player and the
\* LLM behaviour of the last call, whatever was called before
FreshOutcome ==
    generate_psi_report(
        IF call.name = "submit_evaluation"
        THEN EvaluationTextCreate(1, call.presence) ELSE PersistedEvaluation(row),
        PLAYER, MODEL, call.llm).out

\* C16: each call of generate_psi_report invokes the LLM at most once, and
\* not at all when no client is configured; a failure of the LLM or of the
\* extraction, the decoding or the validation of its response triggers no
\* second invocation; and the outcome of a call is what its own evaluation,
\* player and LLM behaviour give, whatever the earlier calls were.
C16_AtMostOneInvocation ==
    ReachedGenerator =>
        /\ Len(levels) <= 1
        /\ \A i \in 1..Len(levels) : levels[i] = LLM_CALL
        /\ ~MODEL => levels = <<>>
        /\ IF Raised(FreshOutcome)
           THEN ret = FreshOutcome
           ELSE pc = "returned" /\ ret.val.psi_report = as_dict(FreshOutcome.val)

\* a submission, after an earlier one that stored another report, in which
\* the LLM was invoked once and its response failed the validation
C16_Witness ==
    /\ ReachedGenerator /\ MODEL
    /\ call.name = "submit_evaluation"
    /\ CallTry.exc = "ValidationError"
    /\ levels = <<LLM_CALL>>
    /\ pc = "returned"
    /\ row.ai_report_json # ret.val.psi_report

\* the LLM of the last call answered with a payload whose presence is 11
OutOfRangePayload ==
    /\ ReachedGenerator /\ MODEL
    /\ call.name = "submit_evaluation"
    /\ call.llm = LLMReturns(Response(JSON_TEXT, Absent),
                             ScoresPayload(PyInt(11), PyInt(8), PyInt(6), Absent))

\* C20: a decoded payload whose presence, skill or intent coerces to an
\* integer outside [0,10] is not clamped by _normalise_payload, the
\* validation of the schema rejects it, and generate_psi_report returns the
\* fallback report: its scores are those of the coach notes and none of its
\* fields is the LLM's.
C20_OutOfRangeGivesFallback ==
    OutOfRangePayload =>
        /\ _normalise_payload(call.llm.payload, SubmittedData(call.presence))
              .val.d["scores"].d["presence"] = PyInt(11)
        /\ CallTry = Raise("ValidationError")
        /\ pc = "returned"
        /\ Return(ret.val.psi_report)
             = _fallback_report(SubmittedData(call.presence), Str(<<"ValidationError">>))

(***************************************************************************)
(* Properties of the results of generate_video_analysis.                   *)
(***************************************************************************)
PARTNER_KEYS ==
    {"partner_scores", "partner_evaluation", "partner_strengths",
     "partner_weaknesses", "partner_actions_strengths",
     "partner_actions_weaknesses", "partner_course_forward",
     "partner_summary_bullets"}

\* C15: every result of generate_video_analysis, from a level of the ladder
\* or from the canned fallback, holds all the partner fields when the game
\* format is doubles and none of them when it is singles.  Stated for the
\* doubles sessions that have a partner.
C15_PartnerFieldsWithDoubles ==
    (pc = "returned" /\ call.name = "generate_video_analysis") =>
        /\ (call.video.game_format = "doubles" /\ call.partner # None)
              => PARTNER_KEYS \subseteq DOMAIN ret.val.d
        /\ call.video.game_format = "singles"
              => PARTNER_KEYS \cap DOMAIN ret.val.d = {}

(***************************************************************************)
(* Properties of the normaliser on the mappings _extract_evaluation_data   *)
(* builds.                                                                 *)
(***************************************************************************)
\* a persisted row without a player whose improvements column is note,
\* None when the column is empty
RowWithImprovements(note) ==
    [model_dump |-> FALSE, player |-> None,
     fields |-> With(BaseEvaluation, "improvements", note)]

\* the first pass returned for a payload that is an object without
\* course_forward, or with an empty one
CourseForwardFilled ==
    /\ call.name = "_normalise_payload" /\ call.pass = 1 /\ pc = "returned"
    /\ call.payload.t = "dict"
    /\ GetOr(call.payload.d, "course_forward", Str(<<>>)) = Str(<<>>)

\* C22: when the payload has no course_forward or an empty one, the
\* normalised course_forward is the improvements note of the evaluation when
\* the note was provided and the generic sentence when it is absent, and it
\* is not empty in either case.
C22_CourseForwardFromImprovements ==
    CourseForwardFilled =>
        \A note \in {None, Str(<<>>), Str(<<"x">>)} :
            call.evaluation_data = _extract_evaluation_data(RowWithImprovements(note))
                => /\ ret.val.d["course_forward"] # Str(<<>>)
                   /\ ret.val.d["course_forward"] =
                        (IF note = None THEN GENERIC_COURSE_FORWARD
                         ELSE IF note = Str(<<>>) THEN ret.val.d["course_forward"]
                         ELSE note)

(***************************************************************************)
(* Properties of the content of the fallback report.                       *)
(***************************************************************************)
\* C23: in every fallback report player_strengths is the strengths note of
\* the coach when that note is not empty and a placeholder that is not
\* blank otherwise, and summary_bullets is the same list of exactly 5 canned
\* entries for every input.
C23_StrengthsNoteOrPlaceholder ==
    (pc = "returned" /\ call.name = "_fallback_report") =>
        \E note \in {Get(call.evaluation_data, "strengths")} :
            /\ Len(ret.val.player_strengths) = 1
            /\ IF note # None /\ note # Str(<<>>)
               THEN ret.val.player_strengths = <<note>>
               ELSE Strip(ret.val.player_strengths[1].s) # <<>>
            /\ ret.val.summary_bullets = FALLBACK_BULLETS
            /\ Len(ret.val.summary_bullets) = 5

(***************************************************************************)
(* Properties of the report object generate_psi_report returns.            *)
(***************************************************************************)
\* C24: on the success path generate_psi_report changes the validated
\* report only by filling scores.psi with weighted_psi when psi is absent;
\* a supplied psi and every other field stay as validated; psi_value(),
\* formatted() and as_dict() called afterwards change no field of the
\* report; and the returned report has a psi that is not None.
C24_OnlyPsiBackfilled ==
    (call.name = "generate_psi_report" /\ pc = "returned") =>
        /\ call.report.scores.psi # None
        /\ call.report =
              (IF call.validated.scores.psi # None THEN call.validated
               ELSE [call.validated EXCEPT !.scores =
                       [call.validated.scores EXCEPT !.psi =
                           weighted_psi(call.validated.scores.presence,
                                        call.validated.scores.skill,
                                        call.validated.scores.intent)]])
        /\ call.method = "none" => ret = Return(call.report)
        /\ call.method = "as_dict" => ret.val.scores.psi = call.report.scores.psi

\* as_dict was called on a returned report whose psi the payload supplied,
\* and that psi is not the weighted sum of the three scores
C24_Witness ==
    /\ call.name = "generate_psi_report" /\ pc = "returned"
    /\ call.method = "as_dict"
    /\ call.validated.scores.psi = Num(99, 10)
    /\ call.report.scores.psi = Num(99, 10)
    /\ weighted_psi(call.report.scores.presence, call.report.scores.skill,
                    call.report.scores.intent) = PyInt(0)

\* C26: the psi of every report generate_psi_report returns, the value that
\* is persisted as psi_score, lies in [0.0,10.0], also when the payload of
\* the LLM supplies a psi of its own.
C26_PsiInRange ==
    ReportReturned =>
        /\ ret.val.psi_report.scores.psi.t = "num"
        /\ 0 <= ret.val.psi_report.scores.psi.num
        /\ ret.val.psi_report.scores.psi.num <= 10 * ret.val.psi_report.scores.psi.den

(***************************************************************************)
(* Properties of the scores of the video results.                          *)
(***************************************************************************)
\* C25: every result generate_video_analysis returns from a level of the
\* ladder (direct decoding, brace-matched decoding, the text parser) has
\* scores.presence, scores.skill and scores.intent as integers in [0,10],
\* whatever numbers the text of the LLM holds.
C25_VideoScoresInRange ==
    (pc = "returned" /\ call.name = "generate_video_analysis" /\ ~CannedUsed) =>
        /\ ret.val.d["scores"].t = "dict"
        /\ \A key \in {"presence", "skill", "intent"} :
              /\ key \in DOMAIN ret.val.d["scores"].d
              /\ ret.val.d["scores"].d[key] \in {PyInt(n) : n \in 0..10}

(***************************************************************************)
(* Verification: verification.py.  verification_store maps a contact to    *)
(* an entry object; an entry is a dict, so the store and the local         *)
(* variable stored of verify_code refer to one object of the heap.  A code *)
(* is a sequence of characters; the clock counts minutes.                  *)
(***************************************************************************)
CODE_TTL == 10          \* timedelta(minutes=10)
MAX_ATTEMPTS == 5       \* stored['attempts'] >= 5
MaxTime == 21           \* the clock stops here

Contacts == {"a@x", "b@x"}
\* codes generate_verification_code makes: upper-case letters and digits
GeneratedCodes == {<<"A", "1">>, <<"B", "2">>}
\* codes a client submits
SubmittedCodes == {<<"A", "1">>, <<"a", "1">>, <<"B", "2">>, <<>>}

\* str.upper()
UpperChar(c) == CASE c = "a" -> "A" [] c = "b" -> "B" [] OTHER -> c
Upper(code) == [i \in 1..Len(code) |-> UpperChar(code[i])]

\* d[key] = value, and del d[key] of a key d holds
SetItem(m, key, value) ==
    [k \in DOMAIN m \cup {key} |-> IF k = key THEN value ELSE m[k]]
DelItem(m, key) == [k \in DOMAIN m \ {key} |-> m[k]]

\* the identity of a new object
NewObject(objects) ==
    CHOOSE id \in 1..(Cardinality(DOMAIN objects) + 1) : id \notin DOMAIN objects

\* the objects that are still referred to by the store or by a local
Collected(objects, store, running) ==
    [id \in {o \in DOMAIN objects :
                \/ \E c \in DOMAIN store : store[c] = o
                \/ \E t \in DOMAIN running : running[t].stored = o} |-> objects[id]]

Stored(store, objects) == [store |-> store, heap |-> objects]

\* store_verification_code: the store and the heap after the call
store_verification_code(store, objects, contact, code, verification_type, utcnow) ==
    LET entry == NewObject(objects)
    IN  Stored(SetItem(store, contact, entry),
               SetItem(objects, entry, [code |-> code, type |-> verification_type,
                                        expires_at |-> utcnow + CODE_TTL,
                                        attempts |-> 0]))

\* what verify_code returns, the store and the heap after the call, and
\* whether the call compared the submitted code with the stored one
Verified(out, store, objects, compared) ==
    [out |-> out, store |-> store, heap |-> objects, compared |-> compared]

\* verify_code that keeps the entry after a successful verification
verify_code_keeping(store, objects, contact, code, utcnow) ==
    IF contact \notin DOMAIN store
    THEN Verified(Return(FALSE), store, objects, FALSE)
    ELSE LET stored == store[contact]
             counted == [objects EXCEPT ![stored].attempts = @ + 1]
         IN  IF utcnow > objects[stored].expires_at
             THEN Verified(Return(FALSE), DelItem(store, contact), objects, FALSE)
             ELSE IF objects[stored].attempts >= MAX_ATTEMPTS
             THEN Verified(Return(FALSE), DelItem(store, contact), objects, FALSE)
             ELSE Verified(Return(Upper(counted[stored].code) = Upper(code)),
                           store, counted, TRUE)

verify_code(store, objects, contact, code, utcnow) ==
    IF contact \notin DOMAIN store
    THEN Verified(Return(FALSE), store, objects, FALSE)
    ELSE LET stored == store[contact]
             counted == [objects EXCEPT ![stored].attempts = @ + 1]
         IN  IF utcnow > objects[stored].expires_at
             THEN Verified(Return(FALSE), DelItem(store, contact), objects, FALSE)
             ELSE IF objects[stored].attempts >= MAX_ATTEMPTS
             THEN Verified(Return(FALSE), DelItem(store, contact), objects, FALSE)
             ELSE IF Upper(counted[stored].code) = Upper(code)
             THEN Verified(Return(TRUE), DelItem(store, contact), counted, TRUE)
             ELSE Verified(Return(FALSE), store, counted, TRUE)

\* the history of the code last stored for a contact
Audit(code, compared, accepted) ==
    [code |-> code, compared |-> compared, accepted |-> accepted]

InitVerify ==
    /\ NoVerification
    /\ NoUploads
    /\ MODEL = FALSE
    /\ pc = "ready"
    /\ call = Idle
    /\ ret = Idle
    /\ levels = <<>>
    /\ row = Idle

\* send_verification_code: store_verification_code(request.contact, code, ...)
StoreVerificationCode ==
    /\ \E contact \in Contacts, code \in GeneratedCodes :
        \E after \in {store_verification_code(verification_store, heap, contact,
                                              code, "email", now)} :
          /\ call' = [name |-> "store_verification_code", contact |-> contact,
                      code |-> code]
          /\ ret' = Return(None)
          /\ verification_store' = after.store
          /\ heap' = Collected(after.heap, after.store, threads)
          /\ audit' = SetItem(audit, contact, Audit(code, 0, 0))
    /\ pc' = "returned"
    /\ UNCHANGED <<MODEL, levels, row, now, threads, uploads>>

\* verify_code_endpoint: verify_code(request.contact, request.code)
VerifyCode ==
    /\ \E contact \in Contacts, code \in SubmittedCodes :
        \E after \in {verify_code(verification_store, heap, contact, code, now)} :
          /\ call' = [name |-> "verify_code", contact |-> contact, code |-> code]
          /\ ret' = after.out
          /\ verification_store' = after.store
          /\ heap' = Collected(after.heap, after.store, threads)
          /\ audit' = IF after.compared
                      THEN [audit EXCEPT ![contact].compared = @ + 1,
                                         ![contact].accepted =
                                             IF after.out = Return(TRUE)
                                             THEN @ + 1 ELSE @]
                      ELSE audit
    /\ pc' = "returned"
    /\ UNCHANGED <<MODEL, levels, row, now, threads, uploads>>

\* time passes between two calls
Tick ==
    /\ \E minutes \in {CODE_TTL, CODE_TTL + 1} :
          /\ now + minutes <= MaxTime
          /\ now' = now + minutes
    /\ UNCHANGED <<MODEL, pc, call, ret, levels, row, verification_store, heap,
                   threads, audit, uploads>>

NextVerify == StoreVerificationCode \/ VerifyCode \/ Tick

SpecVerify == InitVerify /\ [][NextVerify]_vars

\* the entry the store holds for the contact of the last call
EntryOfCall == heap[verification_store[call'.contact]]

\* C27: for any sequence of store_verification_code and verify_code calls,
\* verify_code(contact, code) returns True only if the store holds an entry
\* for the contact that has not expired, that fewer than 5 earlier checks
\* were counted on, and whose code equals the submitted one ignoring case;
\* returning True deletes the entry.  So each stored code is accepted at
\* most once and is compared with at most 5 submitted codes.
C27_AcceptedOnlyWhenValid ==
    /\ [][(now' = now /\ call'.name = "verify_code" /\ ret' = Return(TRUE)) =>
            /\ call'.contact \in DOMAIN verification_store
            /\ now <= EntryOfCall.expires_at
            /\ EntryOfCall.attempts < MAX_ATTEMPTS
            /\ Upper(EntryOfCall.code) = Upper(call'.code)
            /\ call'.contact \notin DOMAIN verification_store']_vars
    /\ [](\A contact \in DOMAIN audit :
            /\ audit[contact].accepted <= 1
            /\ audit[contact].compared <= MAX_ATTEMPTS)

\* a code was accepted at the fifth check, in lower case, at the last minute
C27_Witness ==
    /\ pc = "returned"
    /\ call.name = "verify_code" /\ ret = Return(TRUE)
    /\ call.code = <<"a", "1">>
    /\ audit[call.contact] = Audit(<<"A", "1">>, MAX_ATTEMPTS, 1)
    /\ now = CODE_TTL
    /\ call.contact \notin DOMAIN verification_store

(***************************************************************************)
(* verify_code in the thread pool: the endpoint is a synchronous handler,  *)
(* so two requests run verify_code in two threads over the one store.      *)
(* Each thread runs the statements of verify_code in order, and the other  *)
(* thread may run between any two accesses of the shared objects; the      *)
(* augmented assignment of line 56 reads the counter, then writes it.      *)
(***************************************************************************)
NoObject == 0
Pending == [exc |-> "pending"]

Thread(contact, code) ==
    [pc |-> "get", contact |-> contact, code |-> code, stored |-> NoObject,
     attempts |-> 0, result |-> FALSE, ret |-> Pending]

\* an entry that earlier checks counted on, one after the other
CheckedEntry(code, checks) ==
    [code |-> code, type |-> "email", expires_at |-> CODE_TTL, attempts |-> checks]

InitThreads ==
    /\ NoUploads
    /\ MODEL = FALSE
    /\ pc = "ready"
    /\ call = Idle
    /\ ret = Idle
    /\ levels = <<>>
    /\ row = Idle
    /\ now = 0
    /\ \E checks \in 0..MAX_ATTEMPTS :
          /\ verification_store = SetItem(<<>>, "a@x", 1)
          /\ heap = SetItem(<<>>, 1, CheckedEntry(<<"A", "1">>, checks))
          /\ audit = SetItem(<<>>, "a@x", Audit(<<"A", "1">>, checks, 0))
    /\ \E first \in Contacts, second \in Contacts,
          code1 \in SubmittedCodes, code2 \in SubmittedCodes :
          threads = <<Thread(first, code1), Thread(second, code2)>>

\* what a step of a thread leaves alone, but for the store, the heap and
\* the history
ThreadFrame == UNCHANGED <<MODEL, pc, call, ret, levels, row, now, uploads>>

\* return from verify_code
Returns(t, out) == [threads EXCEPT ![t].pc = "done", ![t].ret = out]

\* stored = verification_store.get(contact); if not stored: return False
GetStored(t) ==
    /\ threads[t].pc = "get"
    /\ threads' = IF threads[t].contact \in DOMAIN verification_store
                  THEN [threads EXCEPT
                           ![t].stored = verification_store[threads[t].contact],
                           ![t].pc = "expiry"]
                  ELSE Returns(t, Return(FALSE))
    /\ UNCHANGED <<verification_store, heap, audit>>
    /\ ThreadFrame

\* if datetime.utcnow() > stored['expires_at']
CheckExpiry(t) ==
    /\ threads[t].pc = "expiry"
    /\ threads' = [threads EXCEPT ![t].pc =
                      IF now > heap[threads[t].stored].expires_at
                      THEN "delete" ELSE "limit"]
    /\ UNCHANGED <<verification_store, heap, audit>>
    /\ ThreadFrame

\* if stored['attempts'] >= 5
CheckAttempts(t) ==
    /\ threads[t].pc = "limit"
    /\ threads' = [threads EXCEPT ![t].pc =
                      IF heap[threads[t].stored].attempts >= MAX_ATTEMPTS
                      THEN "delete" ELSE "load"]
    /\ UNCHANGED <<verification_store, heap, audit>>
    /\ ThreadFrame

\* stored['attempts'] += 1: the read
LoadAttempts(t) ==
    /\ threads[t].pc = "load"
    /\ threads' = [threads EXCEPT ![t].attempts = heap[threads[t].stored].attempts,
                                  ![t].pc = "add"]
    /\ UNCHANGED <<verification_store, heap, audit>>
    /\ ThreadFrame

\* stored['attempts'] += 1: the write
AddAttempt(t) ==
    /\ threads[t].pc = "add"
    /\ heap' = [heap EXCEPT ![threads[t].stored].attempts = threads[t].attempts + 1]
    /\ threads' = [threads EXCEPT ![t].pc = "compare"]
    /\ UNCHANGED <<verification_store, audit>>
    /\ ThreadFrame

\* if stored['code'].upper() == code.upper()
CompareCode(t) ==
    /\ threads[t].pc = "compare"
    /\ threads' = IF Upper(heap[threads[t].stored].code) = Upper(threads[t].code)
                  THEN [threads EXCEPT ![t].pc = "delete", ![t].result = TRUE]
                  ELSE Returns(t, Return(FALSE))
    /\ audit' = [audit EXCEPT ![threads[t].contact].compared = @ + 1]
    /\ UNCHANGED <<verification_store, heap>>
    /\ ThreadFrame

\* del verification_store[contact], then return: KeyError when the key is
\* no longer in the store
DeleteEntry(t) ==
    /\ threads[t].pc = "delete"
    /\ IF threads[t].contact \in DOMAIN verification_store
       THEN /\ verification_store' = DelItem(verification_store, threads[t].contact)
            /\ threads' = Returns(t, Return(threads[t].result))
            /\ audit' = IF threads[t].result
                        THEN [audit EXCEPT ![threads[t].contact].accepted = @ + 1]
                        ELSE audit
       ELSE /\ threads' = Returns(t, Raise("KeyError"))
            /\ UNCHANGED <<verification_store, audit>>
    /\ UNCHANGED heap
    /\ ThreadFrame

NextThreads ==
    \/ \E t \in DOMAIN threads :
          \/ GetStored(t) \/ CheckExpiry(t) \/ CheckAttempts(t) \/ LoadAttempts(t)
          \/ AddAttempt(t) \/ CompareCode(t) \/ DeleteEntry(t)
    \/ Tick

SpecThreads == InitThreads /\ [][NextThreads]_vars

\* C28: when two calls of verify_code for the same contact interleave, at
\* most one returns True, no call raises (deleting an entry the other call
\* already deleted, say), and every comparison is counted in attempts, so
\* that a stored code is compared with at most 5 submitted codes.
C28_InterleavedChecksAreSafe ==
    (threads # <<>> /\ threads[1].contact = threads[2].contact) =>
        /\ Cardinality({t \in DOMAIN threads : threads[t].ret = Return(TRUE)}) <= 1
        /\ \A t \in DOMAIN threads :
              threads[t].ret \in {Pending, Return(TRUE), Return(FALSE)}
        /\ \A contact \in DOMAIN audit :
              /\ audit[contact].compared <= MAX_ATTEMPTS
              /\ audit[contact].compared <= heap[1].attempts

(***************************************************************************)
(* The upload of generate_video_analysis, statement by statement: the      *)
(* temporary file of the data:video branch, the upload, the polling loop   *)
(* and the generation.  The state of the uploaded file at the service      *)
(* changes on its own while the handler polls it.                          *)
(***************************************************************************)
MaxPolls == 3           \* the count of the polls stops here

TEMP_VIDEO_PATH == "tmp.mp4"
NO_PATH == "none"
FileStates == {"PROCESSING", "ACTIVE", "FAILED"}

\* google_genai.get_file that answers the state it was given before
get_file_stale(video_file, state) == video_file

\* google_genai.get_file(video_file.name)
get_file(video_file, state) == [state |-> state]

\* os.unlink(temp_video_path) of the finally clause, where there is one
Unlinked(existing, video_call) ==
    IF video_call.video.video_path = "data:video"
    THEN existing \ {video_call.temp_video_path}
    ELSE existing

\* the except clause: the canned fallback with the message of the exception
ExceptFallback(video_call, exc) ==
    CallFallback(PLAYER.name,
                 PartnerName(video_call.video.game_format, video_call.partner),
                 video_call.video.game_format, Str(<<exc>>), <<>>)

\* the statements after the polling loop left with a state that is not FAILED
AfterPolling(video_call) ==
    generate_video_analysis(
        VideoAnalysis(video_call.video.game_format, video_call.video.video_path, TRUE),
        PLAYER, video_call.partner, TRUE,
        Sdk("ok", <<"ACTIVE">>, video_call.sdk.generate, video_call.sdk.response))

UploadCall(video, partner, sdk, disk) ==
    [name |-> "generate_video_analysis", video |-> video, partner |-> partner,
     sdk |-> sdk, disk |-> disk, temp_video_path |-> NO_PATH,
     video_file |-> [state |-> "none"], polls |-> 0]

UploadTexts == {<<"{", "}">>, <<"{", "s", "}">>, <<"p">>, <<>>}

InitUpload ==
    /\ NoVerification
    /\ NoUploads
    /\ MODEL \in BOOLEAN
    /\ pc = "ready"
    /\ ret = Idle
    /\ levels = <<>>
    /\ row = Idle
    /\ \E game_format \in {"singles", "doubles"}, partner \in {None, PARTNER},
          video_path \in {"data:video", "path"}, has_comma \in BOOLEAN,
          disk \in {"ok", "full"} :
          \E sdk \in {SdkReturns(text) : text \in UploadTexts}
                     \cup {Sdk("raises", <<>>, "ok", Response(Absent, Absent)),
                           Sdk("ok", <<>>, "raises", Response(Absent, Absent))} :
             call = UploadCall(VideoAnalysis(game_format, video_path, has_comma),
                               partner, sdk, disk)

\* the call ends with this outcome
Ends(result) ==
    /\ ret' = result.out
    /\ levels' = result.levels
    /\ pc' = IF Raised(result.out) THEN "raised" ELSE "returned"

UploadFrame == UNCHANGED <<MODEL, row, verification>>

\* up to the end of the with block that writes the temporary file
SaveVideo ==
    /\ pc = "ready"
    /\ call.name = "generate_video_analysis"
    /\ IF ~MODEL
       THEN /\ Ends(CallFallback(PLAYER.name,
                                 PartnerName(call.video.game_format, call.partner),
                                 call.video.game_format,
                                 Str(<<"Gemini API not configured">>), <<>>))
            /\ UNCHANGED <<call, files>>
       ELSE IF call.video.video_path # "data:video"
       THEN /\ pc' = "upload"
            /\ UNCHANGED <<call, files, ret, levels>>
       ELSE IF ~call.video.has_comma
       THEN /\ Ends(ExceptFallback(call, "IndexError"))
            /\ UNCHANGED <<call, files>>
       ELSE IF call.disk = "full"
       THEN /\ files' = files \cup {TEMP_VIDEO_PATH}
            /\ Ends(ExceptFallback(call, "OSError"))
            /\ UNCHANGED call
       ELSE /\ files' = files \cup {TEMP_VIDEO_PATH}
            /\ call' = [call EXCEPT !.temp_video_path = TEMP_VIDEO_PATH]
            /\ pc' = "upload"
            /\ UNCHANGED <<ret, levels>>
    /\ UNCHANGED remote
    /\ UploadFrame

\* video_file = google_genai.upload_file(path=...)
UploadFile ==
    /\ pc = "upload"
    /\ IF call.sdk.upload = "raises"
       THEN /\ files' = Unlinked(files, call)
            /\ Ends(ExceptFallback(call, "ServiceUnavailable"))
            /\ UNCHANGED <<call, remote>>
       ELSE /\ \E state \in FileStates :
                  /\ remote' = state
                  /\ call' = [call EXCEPT !.video_file = [state |-> state]]
            /\ pc' = "polling"
            /\ UNCHANGED <<files, ret, levels>>
    /\ UploadFrame

\* one turn of the loop: time.sleep(2), then get_file
Poll ==
    /\ pc = "polling"
    /\ call.video_file.state = "PROCESSING"
    /\ call' = [call EXCEPT !.video_file = get_file(call.video_file, remote),
                            !.polls = Min(@ + 1, MaxPolls)]
    /\ UNCHANGED <<pc, ret, levels, files, remote>>
    /\ UploadFrame

\* one turn of the loop in which get_file raises
PollRaises ==
    /\ pc = "polling"
    /\ call.video_file.state = "PROCESSING"
    /\ files' = Unlinked(files, call)
    /\ Ends(ExceptFallback(call, "ServiceUnavailable"))
    /\ UNCHANGED <<call, remote>>
    /\ UploadFrame

\* the loop ends: if video_file.state.name == "FAILED": raise Exception
LeaveLoop ==
    /\ pc = "polling"
    /\ call.video_file.state # "PROCESSING"
    /\ IF call.video_file.state = "FAILED"
       THEN /\ files' = Unlinked(files, call)
            /\ Ends(ExceptFallback(call, "Exception"))
       ELSE /\ pc' = "generate"
            /\ UNCHANGED <<files, ret, levels>>
    /\ UNCHANGED <<call, remote>>
    /\ UploadFrame

\* generate_content, os.unlink, the ladder, and the finally clause
GenerateAnalysis ==
    /\ pc = "generate"
    /\ files' = Unlinked(files, call)
    /\ Ends(AfterPolling(call))
    /\ UNCHANGED <<call, remote>>
    /\ UploadFrame

\* the service finishes processing the file
RemoteChange ==
    /\ remote = "PROCESSING"
    /\ remote' \in {"ACTIVE", "FAILED"}
    /\ UNCHANGED <<MODEL, pc, call, ret, levels, row, verification, files>>

NextUpload ==
    \/ SaveVideo \/ UploadFile \/ Poll \/ PollRaises \/ LeaveLoop
    \/ GenerateAnalysis \/ RemoteChange

SpecUpload == InitUpload /\ [][NextUpload]_vars

\* the handler's thread keeps running: no statement blocks for ever, and
\* time.sleep(2) returns
SpecUploadFair ==
    SpecUpload /\ WF_vars(SaveVideo \/ UploadFile \/ Poll \/ LeaveLoop \/ GenerateAnalysis)

\* C29: on the base64 path (video_path starts with data:video), the
\* temporary video file no longer exists when generate_video_analysis
\* returns, on every exit path, the ones that end with an exception
\* included.
C29_TempFileGone ==
    (pc \in {"returned", "raised"} /\ call.video.video_path = "data:video") =>
        files = {}

\* the call is over
CallEnded == pc \in {"returned", "raised"}

\* C30: the polling loop reads the state of the uploaded file again while
\* the state it holds is PROCESSING, and leaves at the first other state:
\* FAILED leads to the fallback path (the except clause), any other state
\* to the content generation.  The call terminates if the remote state
\* eventually leaves PROCESSING; nothing bounds the number of polls while
\* it does not.
C30_PollingLoop ==
    /\ [][(pc = "polling" /\ call.video_file.state = "PROCESSING") =>
            /\ pc' # "generate"
            /\ (pc' = "polling" /\ call' # call) =>
                  call'.video_file.state = remote]_vars
    /\ [][(pc = "polling" /\ call.video_file.state # "PROCESSING") =>
            /\ call' = call
            /\ (pc' # pc /\ call.video_file.state = "FAILED") =>
                  /\ CallEnded'
                  /\ ret' = ExceptFallback(call, "Exception").out
            /\ (pc' # pc /\ call.video_file.state # "FAILED") => pc' = "generate"]_vars
    /\ []((pc = "polling" /\ call.video_file.state = "PROCESSING"
              /\ remote = "PROCESSING") => ENABLED (Poll /\ pc' = "polling"))
    /\ (<>[](remote # "PROCESSING")) => <>CallEnded

\* the loop polled as many times as the count shows, then saw the file
\* ACTIVE and left for the generation
C30_Witness ==
    /\ pc = "generate"
    /\ call.polls = MaxPolls
    /\ call.video_file.state = "ACTIVE"
====
